---- MODULE Spec2Model ----
(***************************************************************************)
(* Budget pacer (src/budget-pacer.js): the pacing and forecasting          *)
(* computation main() runs for one account, trendLabel_, main's account    *)
(* loop, monthMeta_, readConfig_, and the seeding of the Config sheet over *)
(* successive runs.                                                        *)
(*                                                                         *)
(* JavaScript numbers are IEEE-754 binary64 values: every operation gives  *)
(* the representable number nearest to the exact result, ties to even,     *)
(* with signed zeros, subnormals, overflow to an infinity, and NaN.        *)
(***************************************************************************)
EXTENDS Integers, Sequences, FiniteSets, TLC

VARIABLES
    pc,             \* position of the run that is being modelled
    report,         \* rows of ACCOUNT_PERFORMANCE_REPORT, in the order returned
    daily,          \* dailyActuals: the report rows after rows.sort
    monthlyBudget,  \* budgetCap / monthlyBudget
    mCtx,           \* month context: daysInMonth, daysElapsed
    spendMtd,       \* getStatsFor('THIS_MONTH').getCost()
    window,         \* the window passed to computeWmaDaily_
    perDay,         \* the DayRow sequence
    wmaDaily,       \* result of computeWmaDaily_
    kpis,           \* KPI block written by writeAccountSheet_
    overviewRow,    \* the row main pushes to overviewRows
    trendIn,        \* argument of trendLabel_
    trendOut,       \* result of trendLabel_
    cfgIndex,       \* cfg.index of readConfig_: account id -> entry
    chunkStart,     \* i of main's chunk loop
    iter,           \* accounts the open iterator has still to yield
    yielded,        \* number of accounts the iterators have yielded
    totals,         \* totals.processed / skipped / errors
    overviewRows,   \* account ids of the rows pushed to overviewRows
    lastOutcome,    \* what happened to the account yielded last
    cfgRows,        \* cfg.rows of readConfig_: the entries in sheet order
    today,          \* the reference date as Utilities.formatDate renders it in tz
    config,         \* data rows of the Config sheet (row 2 and below)
    seed,           \* result of seedOrMergeConfigWithAccounts_ in the last run
    processedIds,   \* account ids the last run processed
    mcc,            \* the accounts MccApp.accounts() yields
    appendLog       \* account ids of the rows seeding has appended, all runs

vars == <<pc, report, daily, monthlyBudget, mCtx, spendMtd, window, perDay,
          wmaDaily, kpis, overviewRow, trendIn, trendOut, cfgIndex,
          chunkStart, iter, yielded, totals, overviewRows, lastOutcome,
          cfgRows, today, config, seed, processedIds, mcc, appendLog>>

engineVars == <<report, daily, monthlyBudget, mCtx, spendMtd, window, perDay,
                wmaDaily, kpis, overviewRow>>
trendVars == <<trendIn, trendOut>>
mainVars == <<cfgIndex, cfgRows, chunkStart, iter, yielded, totals,
              overviewRows, lastOutcome>>
monthVars == <<today>>
sheetVars == <<config, seed, processedIds, mcc, appendLog>>

----------------------------------------------------------------------------
(* Bounds of the model and program constants *)

MaxDays == 3
MaxObs == 2
MaxCost == 2
MaxBudget == 2
MaxSpend == 3
MaxTrendPermille == 120
MaxAccounts == 3
WMA_WINDOW_DAYS == 7
ChunkSize == 50
MaxYears == 3
MaxRows == 2
MaxLinked == 2
MaxTenths == 3
HoursPerDay == 24

----------------------------------------------------------------------------
(* Numbers *)

Abs(i) == IF i < 0 THEN -i ELSE i
Min(i, j) == IF i < j THEN i ELSE j
Max(i, j) == IF i > j THEN i ELSE j

(* Natural numbers of any size: sequences of limbs, least significant      *)
(* first, without a most significant zero limb; <<>> is 0.                 *)
LimbBits == 15
Base == 32768

\* a without its most significant zero limbs
BnTrim(a) ==
    IF a = <<>> \/ a[Len(a)] # 0 THEN a
    ELSE IF \A i \in 1..Len(a) : a[i] = 0 THEN <<>>
    ELSE SubSeq(a, 1, CHOOSE i \in 1..Len(a) :
                          a[i] # 0 /\ \A j \in (i + 1)..Len(a) : a[j] = 0)

RECURSIVE BnFromInt(_)
BnFromInt(n) == IF n = 0 THEN <<>> ELSE <<n % Base>> \o BnFromInt(n \div Base)

Limb(a, i) == IF 1 <= i /\ i <= Len(a) THEN a[i] ELSE 0

\* -1, 0 or 1 as a < b, a = b or a > b
BnCmp(a, b) ==
    IF Len(a) < Len(b) THEN -1
    ELSE IF Len(a) > Len(b) THEN 1
    ELSE IF a = b THEN 0
    ELSE LET i == CHOOSE i \in 1..Len(a) :
                      a[i] # b[i] /\ \A j \in (i + 1)..Len(a) : a[j] = b[j]
         IN IF a[i] < b[i] THEN -1 ELSE 1

\* a + b: limb i receives a carry when a lower limb overflows and every
\* limb in between is full
BnAdd(a, b) ==
    LET n == Max(Len(a), Len(b))
        s == [i \in 1..(n + 1) |-> Limb(a, i) + Limb(b, i)]
        carry(i) == IF \E j \in 1..(i - 1) :
                           s[j] >= Base /\ \A l \in (j + 1)..(i - 1) : s[l] = Base - 1
                    THEN 1 ELSE 0
    IN BnTrim([i \in 1..(n + 1) |-> (s[i] + carry(i)) % Base])

\* a - b for a >= b
BnSub(a, b) ==
    LET borrow(i) == IF \E j \in 1..(i - 1) :
                            a[j] < Limb(b, j)
                                /\ \A l \in (j + 1)..(i - 1) : a[l] = Limb(b, l)
                     THEN 1 ELSE 0
    IN BnTrim([i \in 1..Len(a) |-> (a[i] - Limb(b, i) - borrow(i) + Base) % Base])

\* a * k for 0 <= k < Base
BnMulSmall(a, k) ==
    BnAdd(BnTrim([i \in 1..Len(a) |-> (a[i] * k) % Base]),
          BnTrim([i \in 1..(Len(a) + 1) |-> (Limb(a, i - 1) * k) \div Base]))

\* a * Base^n
BnShiftLimbs(a, n) == IF a = <<>> THEN <<>> ELSE [i \in 1..n |-> 0] \o a

\* a times the limbs lo..hi of b
RECURSIVE BnMulRange(_, _, _, _)
BnMulRange(a, b, lo, hi) ==
    IF lo = hi THEN BnMulSmall(a, b[lo])
    ELSE LET mid == (lo + hi) \div 2
         IN BnAdd(BnMulRange(a, b, lo, mid),
                  BnShiftLimbs(BnMulRange(a, b, mid + 1, hi), mid + 1 - lo))

BnMul(a, b) == IF a = <<>> \/ b = <<>> THEN <<>> ELSE BnMulRange(a, b, 1, Len(b))

RECURSIVE BnDivSmallFrom(_, _, _, _)
BnDivSmallFrom(a, d, i, rem) ==
    IF i = 0 THEN [q |-> <<>>, r |-> rem]
    ELSE LET cur == rem * Base + a[i]
             rest == BnDivSmallFrom(a, d, i - 1, cur % d)
         IN [q |-> Append(rest.q, cur \div d), r |-> rest.r]


BnDivSmallResult(res) == [q |-> BnTrim(res.q), r |-> res.r]

\* quotient and remainder of a by d, 0 < d < Base
BnDivSmall(a, d) == BnDivSmallResult(BnDivSmallFrom(a, d, Len(a), 0))

\* a * 2^k
BnShl(a, k) ==
    LET p == 2^(k % LimbBits)
    IN BnShiftLimbs(BnTrim([i \in 1..(Len(a) + 1) |->
                               ((Limb(a, i) * p) % Base) + ((Limb(a, i - 1) * p) \div Base)]),
                    k \div LimbBits)

\* floor(a / 2^k)
BnShr(a, k) ==
    LET q == k \div LimbBits
        p == 2^(k % LimbBits)
    IN IF q >= Len(a) THEN <<>>
       ELSE BnTrim([i \in 1..(Len(a) - q) |->
                       (a[i + q] \div p) + ((Limb(a, i + q + 1) % p) * (Base \div p))])

\* a mod 2^k # 0
BnLowBits(a, k) ==
    \/ \E i \in 1..Min(k \div LimbBits, Len(a)) : a[i] # 0
    \/ /\ k \div LimbBits < Len(a)
       /\ a[k \div LimbBits + 1] % (2^(k % LimbBits)) # 0

RECURSIVE IntBitLen(_)
IntBitLen(n) == IF n = 0 THEN 0 ELSE 1 + IntBitLen(n \div 2)

BnBitLen(a) ==
    IF a = <<>> THEN 0 ELSE LimbBits * (Len(a) - 1) + IntBitLen(a[Len(a)])

RECURSIVE IntTz(_)
IntTz(n) == IF n % 2 = 1 THEN 0 ELSE 1 + IntTz(n \div 2)

\* number of trailing zero bits of a # 0
BnTz(a) ==
    LET i == CHOOSE i \in 1..Len(a) : a[i] # 0 /\ \A j \in 1..(i - 1) : a[j] = 0
    IN LimbBits * (i - 1) + IntTz(a[i])

BnIsOdd(a) == a # <<>> /\ a[1] % 2 = 1

\* the largest q with q * d <= cur, from the estimate qhat >= q
RECURSIVE BnFixDigit(_, _, _, _)
BnFixDigit(cur, d, qhat, p) ==
    IF BnCmp(p, cur) > 0 THEN BnFixDigit(cur, d, qhat - 1, BnSub(p, d))
    ELSE [q |-> qhat, r |-> BnSub(cur, p)]

\* one limb of the quotient: cur < d * Base, the top limb of d is >= Base / 2
BnDivDigit(cur, d) ==
    IF BnCmp(cur, d) < 0 THEN [q |-> 0, r |-> cur]
    ELSE LET t == Len(d)
             top == IF Len(cur) > t THEN cur[t + 1] * Base + cur[t] ELSE cur[t]
             qhat == Min(top \div d[t], Base - 1)
         IN BnFixDigit(cur, d, qhat, BnMulSmall(d, qhat))


BnDivAppend(rest, q) == [q |-> Append(rest.q, q), r |-> rest.r]

\* the limbs i, i - 1, ..., 1 of the quotient of n by d, from the remainder
\* rem of the limbs above them
RECURSIVE BnDivLoop(_, _, _, _)
BnDivStep(n, d, i, dig) == BnDivAppend(BnDivLoop(n, d, i - 1, dig.r), dig.q)
BnDivLoop(n, d, i, rem) ==
    IF i = 0 THEN [q |-> <<>>, r |-> rem]
    ELSE BnDivStep(n, d, i, BnDivDigit(BnTrim(<<n[i]>> \o rem), d))

BnDivResult(res, s) == [q |-> BnTrim(res.q), r |-> BnShr(res.r, s)]

\* nn by dn, the top limb of dn being >= Base / 2
BnDivNormalised(nn, dn, s) ==
    BnDivResult(BnDivLoop(nn, dn, Len(nn) - Len(dn) + 1,
                          BnTrim(SubSeq(nn, Len(nn) - Len(dn) + 2, Len(nn)))),
                s)

BnDivLong(n, d, s) == BnDivNormalised(BnShl(n, s), BnShl(d, s), s)

BnDivShort(res) == [q |-> res.q, r |-> BnFromInt(res.r)]

\* quotient and remainder of n by d # 0
BnDivMod(n, d) ==
    IF Len(d) = 1 THEN BnDivShort(BnDivSmall(n, d[1]))
    ELSE IF Len(n) < Len(d) THEN [q |-> <<>>, r |-> n]
    ELSE BnDivLong(n, d, LimbBits - IntBitLen(d[Len(d)]))


BnSquare(a) == BnMul(a, a)
BnTimes5If(odd, a) == IF odd THEN BnMulSmall(a, 5) ELSE a

\* 5^n
RECURSIVE BnPow5(_)
BnPow5(n) ==
    IF n = 0 THEN <<1>> ELSE BnTimes5If(n % 2 = 1, BnSquare(BnPow5(n \div 2)))

\* 10^n
BnPow10(n) == BnShl(BnPow5(n), n)

(* An IEEE-754 binary64 number: NaN, an infinity, or (-1)^s * m * 2^e with *)
(* m odd (or m = 0, e = 0) and m < 2^53.                                   *)
NaN == [k |-> "nan", s |-> 0, m |-> <<>>, e |-> 0]
Inf(s) == [k |-> "inf", s |-> s, m |-> <<>>, e |-> 0]
ZeroS(s) == [k |-> "fin", s |-> s, m |-> <<>>, e |-> 0]
Zero == ZeroS(0)

IsNaN(x) == x.k = "nan"
IsFinite(x) == x.k = "fin"
IsZero(x) == x.k = "fin" /\ x.m = <<>>


FinShifted(s, m, e, tz) == [k |-> "fin", s |-> s, m |-> BnShr(m, tz), e |-> e + tz]

\* (-1)^s * m * 2^e for m < 2^53, in its one representation
Fin(s, m, e) == IF m = <<>> THEN ZeroS(s) ELSE FinShifted(s, m, e, BnTz(m))

\* (-1)^s * r * 2^lsb, an infinity from 2^1024 on
FinOrInf(s, r, lsb) == IF BnBitLen(r) + lsb > 1024 THEN Inf(s) ELSE Fin(s, r, lsb)

\* q or q + 1: t is the mantissa with one bit more than q, st tells whether
\* anything is left below that bit; ties go to the even mantissa
RoundHalfEven(t, q, st) ==
    IF BnIsOdd(t) /\ (st \/ BnIsOdd(q)) THEN BnAdd(q, <<1>>) ELSE q

RoundKept(s, t, st, lsb) == FinOrInf(s, RoundHalfEven(t, BnShr(t, 1), st), lsb)

\* lsb is the exponent of the last bit that a binary64 keeps
RoundFrom(s, m, e, sticky, lsb) ==
    IF lsb <= e THEN FinOrInf(s, m, e)
    ELSE RoundKept(s, BnShr(m, lsb - e - 1),
                   sticky \/ BnLowBits(m, lsb - e - 1), lsb)

\* the binary64 nearest to (-1)^s * (m + f) * 2^e, ties to even, where
\* 0 < f < 1 if sticky and f = 0 if not; with sticky, m has 55 bits or more
\* or e <= -1074
RoundToDouble(s, m, e, sticky) ==
    RoundFrom(s, m, e, sticky, Max(e + BnBitLen(m) - 53, -1074))

RoundQuotient(s, res, e) == RoundToDouble(s, res.q, e, res.r # <<>>)

RoundScaled(s, n, d, e, k) == RoundQuotient(s, BnDivMod(BnShl(n, k), d), e - k)

\* the binary64 nearest to (-1)^s * (n / d) * 2^e
RoundRatio(s, n, d, e) ==
    IF n = <<>> THEN ZeroS(s)
    ELSE RoundScaled(s, n, d, e, Max(0, 56 + BnBitLen(d) - BnBitLen(n)))

\* the number i
R(i) ==
    IF i = 0 THEN Zero
    ELSE [k |-> "fin", s |-> IF i < 0 THEN 1 ELSE 0,
          m |-> BnFromInt(Abs(i) \div 2^IntTz(Abs(i))), e |-> IntTz(Abs(i))]

\* x is a whole number, not 0, of less than 30 bits
IsSmall(x) == x.k = "fin" /\ Len(x.m) = 1 /\ 0 <= x.e /\ x.e < LimbBits
\* the whole number x
SmallValue(x) == (IF x.s = 1 THEN -1 ELSE 1) * x.m[1] * 2^x.e

\* the number literal n / d of two whole numbers
Literal(n, d) ==
    IF d = 0 THEN (IF n = 0 THEN NaN ELSE Inf(IF n < 0 THEN 1 ELSE 0))
    ELSE RoundRatio(IF (n < 0) # (d < 0) THEN 1 ELSE 0,
                    BnFromInt(Abs(n)), BnFromInt(Abs(d)), 0)

Neg(x) == IF IsNaN(x) THEN x ELSE [x EXCEPT !.s = 1 - @]

\* -1, 0, 1 as |x| < |y|, |x| = |y|, |x| > |y|, for finite x and y
CmpMagnitude(x, y) ==
    IF x.m = <<>> \/ y.m = <<>>
    THEN (IF x.m = y.m THEN 0 ELSE IF x.m = <<>> THEN -1 ELSE 1)
    ELSE LET tx == x.e + BnBitLen(x.m)
             ty == y.e + BnBitLen(y.m)
             e == Min(x.e, y.e)
         IN IF tx < ty THEN -1
            ELSE IF tx > ty THEN 1
            ELSE BnCmp(BnShl(x.m, x.e - e), BnShl(y.m, y.e - e))


\* (-1)^sx * mx * 2^e + (-1)^sy * my * 2^e, c comparing mx with my
AddSigned(sx, sy, mx, my, e, c) ==
    IF sx # sy /\ c = 0 THEN Zero
    ELSE RoundToDouble(IF sx = sy \/ c > 0 THEN sx ELSE sy,
                       IF sx = sy THEN BnAdd(mx, my)
                       ELSE IF c > 0 THEN BnSub(mx, my) ELSE BnSub(my, mx),
                       e, FALSE)

AddAligned(sx, sy, mx, my, e) == AddSigned(sx, sy, mx, my, e, BnCmp(mx, my))

AddFinite(x, y, e) ==
    AddAligned(x.s, y.s, BnShl(x.m, x.e - e), BnShl(y.m, y.e - e), e)

\* x + y
Add(x, y) ==
    IF IsSmall(x) /\ IsSmall(y) /\ SmallValue(x) + SmallValue(y) # 0
    THEN R(SmallValue(x) + SmallValue(y))
    ELSE IF IsNaN(x) \/ IsNaN(y) THEN NaN
    ELSE IF ~IsFinite(x) /\ ~IsFinite(y) THEN (IF x = y THEN x ELSE NaN)
    ELSE IF ~IsFinite(x) THEN x
    ELSE IF ~IsFinite(y) THEN y
    ELSE IF x.m = <<>> /\ y.m = <<>> THEN ZeroS(IF x.s = 1 /\ y.s = 1 THEN 1 ELSE 0)
    ELSE IF x.m = <<>> THEN y
    ELSE IF y.m = <<>> THEN x
    ELSE IF x.e + BnBitLen(x.m) > y.e + BnBitLen(y.m) + 60 THEN x
    ELSE IF y.e + BnBitLen(y.m) > x.e + BnBitLen(x.m) + 60 THEN y
    ELSE AddFinite(x, y, Min(x.e, y.e))

\* x - y
Sub(x, y) == Add(x, Neg(y))

Xor(s, t) == IF s = t THEN 0 ELSE 1

\* x * y
Mul(x, y) ==
    IF IsSmall(x) /\ IsSmall(y) /\ x.e = 0 /\ y.e = 0
    THEN R(SmallValue(x) * SmallValue(y))
    ELSE IF IsNaN(x) \/ IsNaN(y) THEN NaN
    ELSE IF ~IsFinite(x) \/ ~IsFinite(y)
         THEN (IF IsZero(x) \/ IsZero(y) THEN NaN ELSE Inf(Xor(x.s, y.s)))
    ELSE IF x.m = <<>> \/ y.m = <<>> THEN ZeroS(Xor(x.s, y.s))
    ELSE RoundToDouble(Xor(x.s, y.s), BnMul(x.m, y.m), x.e + y.e, FALSE)

\* x / y
Div(x, y) ==
    IF IsSmall(x) /\ IsSmall(y) /\ Abs(SmallValue(x)) % Abs(SmallValue(y)) = 0
    THEN R((IF x.s = y.s THEN 1 ELSE -1)
               * (Abs(SmallValue(x)) \div Abs(SmallValue(y))))
    ELSE IF IsNaN(x) \/ IsNaN(y) THEN NaN
    ELSE IF ~IsFinite(y) THEN (IF IsFinite(x) THEN ZeroS(Xor(x.s, y.s)) ELSE NaN)
    ELSE IF ~IsFinite(x) THEN Inf(Xor(x.s, y.s))
    ELSE IF y.m = <<>> THEN (IF x.m = <<>> THEN NaN ELSE Inf(Xor(x.s, y.s)))
    ELSE RoundRatio(Xor(x.s, y.s), x.m, y.m, x.e - y.e)


\* x < y
Lt(x, y) ==
    /\ ~IsNaN(x)
    /\ ~IsNaN(y)
    /\ IF ~IsFinite(x) /\ ~IsFinite(y) THEN x.s = 1 /\ y.s = 0
       ELSE IF ~IsFinite(x) THEN x.s = 1
       ELSE IF ~IsFinite(y) THEN y.s = 0
       ELSE IF x.m = <<>> /\ y.m = <<>> THEN FALSE
       ELSE IF x.m = <<>> THEN y.s = 0
       ELSE IF y.m = <<>> THEN x.s = 1
       ELSE IF x.s # y.s THEN x.s = 1
       ELSE (IF x.s = 0 THEN 1 ELSE -1) * CmpMagnitude(x, y) < 0

Gt(x, y) == Lt(y, x)
\* x === y
Eq(x, y) == ~IsNaN(x) /\ ~IsNaN(y) /\ (x = y \/ (IsZero(x) /\ IsZero(y)))
Le(x, y) == Lt(x, y) \/ Eq(x, y)

\* Math.max(x, y)
MathMax(x, y) ==
    IF IsNaN(x) \/ IsNaN(y) THEN NaN
    ELSE IF IsZero(x) /\ IsZero(y) THEN ZeroS(IF x.s = 1 /\ y.s = 1 THEN 1 ELSE 0)
    ELSE IF Lt(x, y) THEN y ELSE x

\* Math.abs(x)
MathAbs(x) == IF IsNaN(x) THEN x ELSE [x EXCEPT !.s = 0]


\* floor(m / 2^k + 1/2)
RoundHalfUp(m, k) == BnShr(BnAdd(m, BnShl(<<1>>, k - 1)), k)

\* ceil(m / 2^k - 1/2) = floor((2m + 2^k - 1) / 2^(k+1))
RoundHalfDown(m, k) ==
    BnShr(BnSub(BnAdd(BnShl(m, 1), BnShl(<<1>>, k)), <<1>>), k + 1)

\* Math.round(x): floor(x + 1/2), worked out exactly
MathRound(x) ==
    IF ~IsFinite(x) \/ x.e >= 0 THEN x
    ELSE IF x.e + BnBitLen(x.m) < 0 THEN ZeroS(x.s)
    ELSE Fin(x.s, IF x.s = 0 THEN RoundHalfUp(x.m, -x.e)
                  ELSE RoundHalfDown(x.m, -x.e), 0)

DigitChars == {"0", "1", "2", "3", "4", "5", "6", "7", "8", "9"}

DigitValue(c) == CHOOSE k \in 0..9 : ToString(k) = c

RECURSIVE DecimalDigits(_)
DecimalDigits(n) ==
    IF n < 10 THEN <<ToString(n)>>
    ELSE DecimalDigits(n \div 10) \o <<ToString(n % 10)>>


\* the decimal digits of a # 0
RECURSIVE BnToDigits(_)
BnDigitsOf(dm) == Append(BnToDigits(dm.q), ToString(dm.r))
BnToDigits(a) == IF a = <<>> THEN <<>> ELSE BnDigitsOf(BnDivSmall(a, 10))

\* the binary64 nearest to (-1)^s * m * 10^e10: the value of a decimal
\* literal
DecimalToDouble(s, m, e10) ==
    LET top10 == e10 + (BnBitLen(m) * 30103) \div 100000
    IN IF m = <<>> THEN ZeroS(s)
       ELSE IF top10 > 310 THEN Inf(s)
       ELSE IF top10 < -330 THEN ZeroS(s)
       ELSE IF e10 >= 0 THEN RoundToDouble(s, BnMul(m, BnPow10(e10)), 0, FALSE)
       ELSE RoundRatio(s, m, BnPow10(-e10), 0)

\* n / d >= 10^k
GePow10(n, d, k) ==
    IF k >= 0 THEN BnCmp(n, BnMul(d, BnPow10(k))) >= 0
    ELSE BnCmp(BnMul(n, BnPow10(-k)), d) >= 0

\* the k with 10^(k-1) <= n / d < 10^k, from an estimate of it
RECURSIVE DecimalExponent(_, _, _)
DecimalExponent(n, d, k) ==
    IF GePow10(n, d, k) THEN DecimalExponent(n, d, k + 1)
    ELSE IF ~GePow10(n, d, k - 1) THEN DecimalExponent(n, d, k - 1)
    ELSE k

RECURSIVE StripZeros(_)
StripZeros(ds) ==
    IF Len(ds) > 1 /\ ds[Len(ds)] = "0" THEN StripZeros(SubSeq(ds, 1, Len(ds) - 1))
    ELSE ds


RECURSIVE ShortestFrom(_, _, _, _, _)

ShortestResult(ds, k, len) == [digits |-> StripZeros(ds), k |-> k + Len(ds) - len]

\* lo is the scaled value cut to len digits and half compares what was cut
\* with a half: lo or lo + 1 is taken if it reads back as x, the closer of the
\* two if both do, the even one if they are as close
ShortestPick(x, n, d, k, len, lo, okLo, okHi, half) ==
    IF okLo \/ okHi
    THEN ShortestResult(
             BnToDigits(IF okLo /\ (~okHi \/ half < 0 \/ (half = 0 /\ ~BnIsOdd(lo)))
                        THEN lo ELSE BnAdd(lo, <<1>>)),
             k, len)
    ELSE ShortestFrom(x, n, d, k, len + 1)

ShortestTry(x, n, d, k, len, dm, den) ==
    ShortestPick(x, n, d, k, len, dm.q,
                 dm.r = <<>> \/ DecimalToDouble(0, dm.q, k - len) = x,
                 dm.r # <<>> /\ DecimalToDouble(0, BnAdd(dm.q, <<1>>), k - len) = x,
                 BnCmp(BnShl(dm.r, 1), den))

ShortestScaled(x, n, d, k, len, num, den) ==
    ShortestTry(x, n, d, k, len, BnDivMod(num, den), den)

\* the shortest decimal that reads back as x = n / d, the closest one if
\* there are several, searched from len digits on: its digits and the k with
\* x ~ 0.digits * 10^k
ShortestFrom(x, n, d, k, len) ==
    ShortestScaled(x, n, d, k, len,
                   IF len >= k THEN BnMul(n, BnPow10(len - k)) ELSE n,
                   IF len >= k THEN d ELSE BnMul(d, BnPow10(k - len)))

Zeros(n) == [i \in 1..n |-> "0"]

\* the digits ds of 0.ds * 10^k as Number::toString writes them
FormatDecimal(ds, k) ==
    LET len == Len(ds)
        ex == <<"e", IF k - 1 < 0 THEN "-" ELSE "+">> \o DecimalDigits(Abs(k - 1))
    IN IF len <= k /\ k <= 21 THEN ds \o Zeros(k - len)
       ELSE IF 0 < k /\ k <= 21
            THEN SubSeq(ds, 1, k) \o <<".">> \o SubSeq(ds, k + 1, len)
       ELSE IF -6 < k /\ k <= 0 THEN <<"0", ".">> \o Zeros(-k) \o ds
       ELSE IF len = 1 THEN ds \o ex
       ELSE <<ds[1], ".">> \o SubSeq(ds, 2, len) \o ex

FormatShortest(sh) == FormatDecimal(sh.digits, sh.k)

ShortestOfRatio(x, n, d) ==
    ShortestFrom(x, n, d,
                 DecimalExponent(n, d, ((x.e + BnBitLen(x.m) - 1) * 30103) \div 100000),
                 1)

\* Number::toString of a positive finite x
PositiveToChars(x) ==
    FormatShortest(ShortestOfRatio(x,
                                   IF x.e >= 0 THEN BnShl(x.m, x.e) ELSE x.m,
                                   IF x.e >= 0 THEN <<1>> ELSE BnShl(<<1>>, -x.e)))

\* Number::toString(x), as a sequence of characters
NumToChars(x) ==
    IF IsNaN(x) THEN <<"N", "a", "N">>
    ELSE IF ~IsFinite(x)
         THEN (IF x.s = 1 THEN <<"-">> ELSE <<>>)
                  \o <<"I", "n", "f", "i", "n", "i", "t", "y">>
    ELSE IF IsZero(x) THEN <<"0">>
    ELSE (IF x.s = 1 THEN <<"-">> ELSE <<>>) \o PositiveToChars(MathAbs(x))

RECURSIVE JoinChars(_)
JoinChars(s) == IF s = <<>> THEN "" ELSE Head(s) \o JoinChars(Tail(s))

\* the string a number becomes when it is concatenated to a string
NumToString(x) == JoinChars(NumToChars(x))

\* a string is a sequence of one-character strings; a character that a
\* string literal cannot hold is written as its code point
WhiteSpaceChars ==
    {" ", "\t", "\n", "\r", "\f", "U+000B", "U+00A0", "U+1680", "U+2000",
     "U+2001", "U+2002", "U+2003", "U+2004", "U+2005", "U+2006", "U+2007",
     "U+2008", "U+2009", "U+200A", "U+2028", "U+2029", "U+202F", "U+205F",
     "U+3000", "U+FEFF"}

RECURSIVE TrimLeft(_)
TrimLeft(s) ==
    IF s # <<>> /\ Head(s) \in WhiteSpaceChars THEN TrimLeft(Tail(s)) ELSE s

RECURSIVE TrimRight(_)
TrimRight(s) ==
    IF s # <<>> /\ s[Len(s)] \in WhiteSpaceChars
    THEN TrimRight(SubSeq(s, 1, Len(s) - 1))
    ELSE s

\* s.trim()
Trim(s) == TrimRight(TrimLeft(s))

\* the index after the run of characters of set cs that starts at index i
RECURSIVE SpanOf(_, _, _)
SpanOf(s, i, cs) ==
    IF i <= Len(s) /\ s[i] \in cs THEN SpanOf(s, i + 1, cs) ELSE i

\* base^n for the bases of number literals
RadixPower(base, n) ==
    CASE base = 10 -> BnPow10(n)
      [] base = 16 -> BnShl(<<1>>, 4 * n)
      [] base = 8 -> BnShl(<<1>>, 3 * n)
      [] base = 2 -> BnShl(<<1>>, n)

\* the number written with the digit values vals[lo..hi] in a base
RECURSIVE BnFromDigits(_, _, _, _)
BnFromDigits(vals, lo, hi, base) ==
    IF lo > hi THEN <<>>
    ELSE IF lo = hi THEN BnFromInt(vals[lo])
    ELSE LET mid == (lo + hi) \div 2
         IN BnAdd(BnMul(BnFromDigits(vals, lo, mid, base),
                        RadixPower(base, hi - mid)),
                  BnFromDigits(vals, mid + 1, hi, base))

\* the value of a run of decimal digits, capped
RECURSIVE CappedDecimal(_, _, _)
CappedDecimal(ds, i, acc) ==
    IF i > Len(ds) \/ acc >= 100000 THEN acc
    ELSE CappedDecimal(ds, i + 1, 10 * acc + DigitValue(ds[i]))

RadixDigits(base) ==
    [c \in (IF base = 16
            THEN DigitChars \cup {"a", "b", "c", "d", "e", "f",
                                  "A", "B", "C", "D", "E", "F"}
            ELSE {ToString(v) : v \in 0..(base - 1)}) |->
        CASE c \in DigitChars -> DigitValue(c)
          [] c \in {"a", "A"} -> 10
          [] c \in {"b", "B"} -> 11
          [] c \in {"c", "C"} -> 12
          [] c \in {"d", "D"} -> 13
          [] c \in {"e", "E"} -> 14
          [] c \in {"f", "F"} -> 15]

\* 0x.., 0o.. and 0b.. literals
RadixOf(u) ==
    IF Len(u) < 3 \/ u[1] # "0" THEN 0
    ELSE IF u[2] \in {"x", "X"} THEN 16
    ELSE IF u[2] \in {"o", "O"} THEN 8
    ELSE IF u[2] \in {"b", "B"} THEN 2
    ELSE 0

RadixLiteral(u, base) ==
    LET table == RadixDigits(base)
        body == SubSeq(u, 3, Len(u))
    IN IF \A i \in 1..Len(body) : body[i] \in DOMAIN table
       THEN RoundToDouble(0, BnFromDigits([i \in 1..Len(body) |-> table[body[i]]],
                                          1, Len(body), base), 0, FALSE)
       ELSE NaN


\* the digits of the integer and fraction parts, and the exponent part that
\* starts at x0 and ends before i3
DecimalOfParts(s, b, digits, fracLen, hasExp, expNeg, x0, i3) ==
    IF digits = <<>> \/ i3 # Len(b) + 1 \/ (hasExp /\ i3 = x0) THEN NaN
    ELSE DecimalToDouble(
             s,
             BnFromDigits([i \in 1..Len(digits) |-> DigitValue(digits[i])],
                          1, Len(digits), 10),
             (IF hasExp
              THEN (IF expNeg THEN -1 ELSE 1)
                       * CappedDecimal(SubSeq(b, x0, i3 - 1), 1, 0)
              ELSE 0) - fracLen)

\* the integer part ends before i1, the fraction runs from f0 up to i2
DecimalExponentPart(s, b, i1, f0, i2) ==
    LET hasExp == i2 <= Len(b) /\ b[i2] \in {"e", "E"}
        expSigned == hasExp /\ i2 + 1 <= Len(b) /\ b[i2 + 1] \in {"+", "-"}
        x0 == IF expSigned THEN i2 + 2 ELSE i2 + 1
    IN DecimalOfParts(s, b, SubSeq(b, 1, i1 - 1) \o SubSeq(b, f0, i2 - 1),
                      i2 - f0, hasExp, expSigned /\ b[i2 + 1] = "-", x0,
                      IF hasExp THEN SpanOf(b, x0, DigitChars) ELSE i2)

DecimalFraction(s, b, i1, f0) ==
    DecimalExponentPart(s, b, i1, f0, SpanOf(b, f0, DigitChars))

DecimalInteger(s, b, i1) ==
    DecimalFraction(s, b, i1, IF i1 <= Len(b) /\ b[i1] = "." THEN i1 + 1 ELSE i1)

DecimalUnsigned(s, b) ==
    IF b = <<"I", "n", "f", "i", "n", "i", "t", "y">> THEN Inf(s)
    ELSE DecimalInteger(s, b, SpanOf(b, 1, DigitChars))

\* StrDecimalLiteral: sign, then Infinity or digits, fraction and exponent
DecimalLiteral(u) ==
    IF u # <<>> /\ u[1] \in {"+", "-"}
    THEN DecimalUnsigned(IF u[1] = "-" THEN 1 ELSE 0, Tail(u))
    ELSE DecimalUnsigned(0, u)

TrimmedToNumber(u) ==
    IF u = <<>> THEN Zero
    ELSE IF RadixOf(u) # 0 THEN RadixLiteral(u, RadixOf(u))
    ELSE DecimalLiteral(u)

\* Number(s) of a string
StringToNumber(s) == TrimmedToNumber(Trim(s))

\* x || 0 on a number: 0 and NaN are falsy
OrZero(x) == IF IsNaN(x) \/ IsZero(x) THEN Zero ELSE x

----------------------------------------------------------------------------
(* Dates: a day of the current month (cur) or of the previous month *)

Date(cur, day) == [cur |-> cur, day |-> day]

\* Date.prototype.getDate
getDate(date) == date.day

\* a.date - b.date < 0 in the comparator of getDailySpendThisMonth_
DateBefore(a, b) ==
    \/ ~a.cur /\ b.cur
    \/ a.cur = b.cur /\ a.day < b.day

----------------------------------------------------------------------------
(* getDailySpendThisMonth_: the report rows, sorted by date (stable) *)

RECURSIVE InsertByDate(_, _)
InsertByDate(sorted, r) ==
    IF sorted = <<>> THEN <<r>>
    ELSE IF DateBefore(r.date, sorted[Len(sorted)].date)
         THEN Append(InsertByDate(SubSeq(sorted, 1, Len(sorted) - 1), r),
                     sorted[Len(sorted)])
         ELSE Append(sorted, r)

RECURSIVE SortByDate(_)
SortByDate(rows) ==
    IF rows = <<>> THEN <<>>
    ELSE InsertByDate(SortByDate(SubSeq(rows, 1, Len(rows) - 1)),
                      rows[Len(rows)])

getDailySpendThisMonth_(rep) ==
    SortByDate([i \in 1..Len(rep) |->
                   [date |-> rep[i].date, cost |-> OrZero(rep[i].cost)]])

----------------------------------------------------------------------------
(* buildPerDayRows_ *)

\* byDay[day] || 0
byDayGet(byDay, day) ==
    IF day \in DOMAIN byDay THEN OrZero(byDay[day]) ELSE Zero

\* a grouping pass that stores the cost instead of adding it
byDayAddOverwrite(byDay, obs) ==
    LET day == getDate(obs.date)
    IN [k \in (DOMAIN byDay) \cup {day} |->
           IF k = day THEN OrZero(obs.cost) ELSE byDay[k]]

\* one pass of the grouping loop: byDay[day] = (byDay[day] || 0) + (cost || 0)
byDayAdd(byDay, obs) ==
    LET day == getDate(obs.date)
        sum == Add(byDayGet(byDay, day), OrZero(obs.cost))
    IN [k \in (DOMAIN byDay) \cup {day} |->
           IF k = day THEN sum ELSE byDay[k]]

RECURSIVE groupByDay(_, _, _)
groupByDay(dl, i, byDay) ==
    IF i > Len(dl) THEN byDay
    ELSE groupByDay(dl, i + 1, byDayAdd(byDay, dl[i]))

targetDailyOf(budget, ctx) ==
    IF ctx.daysInMonth > 0 THEN Div(budget, R(ctx.daysInMonth)) ELSE Zero

\* the ratio without its zero-budget guard
runningPacePctUnguarded(cumSpend, budget) == Div(cumSpend, budget)

runningPacePctOf(cumSpend, budget) ==
    IF Gt(budget, Zero) THEN Div(cumSpend, budget) ELSE Zero

rowRecDaily(budget, cumSpend, ctx, d) ==
    IF ctx.daysInMonth - d > 0
    THEN MathMax(Div(Sub(budget, cumSpend), R(ctx.daysInMonth - d)), Zero)
    ELSE Zero

\* the object pushed for day d
DayRow(d, cost, cumSpend, targetDaily, budget, ctx) ==
    [date           |-> Date(TRUE, d),
     cost           |-> cost,
     cumSpend       |-> cumSpend,
     targetDaily    |-> targetDaily,
     cumTarget      |-> Mul(targetDaily, R(d)),
     gap            |-> Sub(cost, targetDaily),
     cumGap         |-> Sub(cumSpend, Mul(targetDaily, R(d))),
     runningPacePct |-> runningPacePctOf(cumSpend, budget),
     recDaily       |-> rowRecDaily(budget, cumSpend, ctx, d)]

\* an accumulator that is reset every day
cumAddReset(cumSpend, cost) == cost

\* cumSpend += cost
cumAdd(cumSpend, cost) == Add(cumSpend, cost)

RECURSIVE rowsLoop(_, _, _, _, _, _, _)
rowsLoop(byDay, budget, ctx, targetDaily, d, rows, cumSpend) ==
    IF d > ctx.daysInMonth THEN rows
    ELSE LET cost == byDayGet(byDay, d)
             cum  == cumAdd(cumSpend, cost)
         IN rowsLoop(byDay, budget, ctx, targetDaily, d + 1,
                     Append(rows, DayRow(d, cost, cum, targetDaily, budget, ctx)),
                     cum)

buildPerDayRows_(dl, budget, ctx) ==
    LET byDay == groupByDay(dl, 1, [k \in {} |-> Zero])
    IN rowsLoop(byDay, budget, ctx, targetDailyOf(budget, ctx), 1, <<>>, Zero)

----------------------------------------------------------------------------
(* computeWmaDaily_ *)

\* weights that grow with age instead of recency
wmaWeightOldestHighest(n, i) == i + 1

\* var w = n - i
wmaWeight(n, i) == n - i

\* the loop from pass i on; acc = <<sumW, sumWX>>
RECURSIVE wmaLoop(_, _, _, _, _)
wmaLoop(rows, daysElapsed, n, i, acc) ==
    IF i >= n \/ daysElapsed - i <= 0 THEN acc
    ELSE LET idx  == daysElapsed - i
             cost == OrZero(rows[idx].cost)
             w    == wmaWeight(n, i)
         IN wmaLoop(rows, daysElapsed, n, i + 1,
                    <<acc[1] + w, Add(acc[2], Mul(R(w), cost))>>)

computeWmaDaily_(rows, daysElapsed, win) ==
    LET n == Min(win, Max(daysElapsed, 0))
    IN IF n <= 0 THEN Zero
       ELSE LET acc == wmaLoop(rows, daysElapsed, n, 0, <<0, Zero>>)
            IN IF acc[1] # 0 THEN Div(acc[2], R(acc[1])) ELSE Zero

----------------------------------------------------------------------------
(* applyWmaForecast_ *)

\* a forecast that extends the summed daily costs instead of spendMtd
cumForecastWmaFromCumSpend(row, d, ctx, spend, wma) ==
    IF d <= ctx.daysElapsed
    THEN row.cumSpend
    ELSE Add(row.cumSpend, Mul(wma, R(d - ctx.daysElapsed)))

\* a forecast that takes over one day early
cumForecastWmaEarly(row, d, ctx, spend, wma) ==
    IF d < ctx.daysElapsed
    THEN row.cumSpend
    ELSE Add(spend, Mul(wma, R(d - ctx.daysElapsed)))

cumForecastWmaOf(row, d, ctx, spend, wma) ==
    IF d <= ctx.daysElapsed
    THEN row.cumSpend
    ELSE Add(spend, Mul(wma, R(d - ctx.daysElapsed)))

applyWmaForecast_(rows, ctx, spend, wma) ==
    [d \in 1..Len(rows) |->
        [date           |-> rows[d].date,
         cost           |-> rows[d].cost,
         cumSpend       |-> rows[d].cumSpend,
         targetDaily    |-> rows[d].targetDaily,
         cumTarget      |-> rows[d].cumTarget,
         gap            |-> rows[d].gap,
         cumGap         |-> rows[d].cumGap,
         runningPacePct |-> rows[d].runningPacePct,
         recDaily       |-> rows[d].recDaily,
         cumForecastWma |-> cumForecastWmaOf(rows[d], d, ctx, spend, wma),
         projectedEomWmaAtDay |->
             Add(rows[d].cumSpend, Mul(wma, R(ctx.daysInMonth - d)))]]

----------------------------------------------------------------------------
(* trendLabel_ *)

\* a threshold that excludes the boundary
OnTargetTestStrict(abs) == Lt(abs, Literal(5, 100))

\* abs <= 0.05
OnTargetTest(abs) == Le(abs, Literal(5, 100))

trendLabel_(paceDeltaPct) ==
    LET abs == MathAbs(paceDeltaPct)
        pct == MathRound(Mul(abs, R(100)))
    IN IF OnTargetTest(abs) THEN "On Target"
       ELSE IF Lt(paceDeltaPct, Zero)
            THEN "Under " \o NumToString(pct) \o "%"
            ELSE "Over " \o NumToString(pct) \o "%"

----------------------------------------------------------------------------
(* Account-level figures: main (overview row) and writeAccountSheet_ (KPIs) *)

remainingDaysOf(ctx) == Max(ctx.daysInMonth - ctx.daysElapsed, 0)

\* the recommendation without its clamp at 0
recDailyUnclamped(budget, spend, remainingDays) ==
    IF remainingDays > 0
    THEN Div(Sub(budget, spend), R(remainingDays))
    ELSE Zero

recDailyOf(budget, spend, remainingDays) ==
    IF remainingDays > 0
    THEN MathMax(Div(Sub(budget, spend), R(remainingDays)), Zero)
    ELSE Zero

\* the division done on whole days
targetToDateWholeDays(budget, ctx) ==
    Mul(budget, R(ctx.daysElapsed \div ctx.daysInMonth))

targetToDateOf(budget, ctx) ==
    Mul(budget, Div(R(ctx.daysElapsed), R(ctx.daysInMonth)))

pctBudgetSpentOf(budget, spend) ==
    IF Gt(budget, Zero) THEN Div(spend, budget) ELSE Zero

paceDeltaPctOf(spend, targetToDate) ==
    IF Gt(targetToDate, Zero) THEN Sub(Div(spend, targetToDate), R(1)) ELSE Zero

\* the KPI values writeAccountSheet_ computes from its ctx argument
AccountSheetKpis(budget, spend, availRem, ctx, wma) ==
    LET targetToDate == targetToDateOf(budget, ctx)
    IN [monthlyBudget      |-> budget,
        spendMtd           |-> spend,
        availableRemaining |-> availRem,
        daysInMonth        |-> ctx.daysInMonth,
        daysElapsed        |-> ctx.daysElapsed,
        targetToDate       |-> targetToDate,
        paceVsTarget       |-> Sub(spend, targetToDate),
        pctBudgetSpent     |-> pctBudgetSpentOf(budget, spend),
        projectedEom       |-> Add(spend, Mul(wma, R(remainingDaysOf(ctx)))),
        recDaily           |-> recDailyOf(budget, spend, remainingDaysOf(ctx)),
        wmaDaily           |-> wma]

\* the row main pushes to overviewRows
OverviewRow(budget, spend, availRem, ctx, wma) ==
    LET targetToDate == targetToDateOf(budget, ctx)
        paceDeltaPct == paceDeltaPctOf(spend, targetToDate)
    IN [budgetCap      |-> budget,
        spendMtd       |-> spend,
        trendText      |-> trendLabel_(paceDeltaPct),
        paceDeltaPct   |-> paceDeltaPct,
        availRem       |-> availRem,
        daysInMonth    |-> ctx.daysInMonth,
        daysElapsed    |-> ctx.daysElapsed,
        targetToDate   |-> targetToDate,
        paceVsTarget   |-> Sub(spend, targetToDate),
        pctBudgetSpent |-> pctBudgetSpentOf(budget, spend),
        projectedEom   |-> Add(spend, Mul(wma, R(remainingDaysOf(ctx)))),
        recDaily       |-> recDailyOf(budget, spend, remainingDaysOf(ctx))]

----------------------------------------------------------------------------
(* The computation for one account: main, lines 133-188 *)

Obs(cur, day, cost) == [date |-> Date(cur, day), cost |-> R(cost)]

SeqsUpTo(S, n) == UNION {[1..k -> S] : k \in 0..n}

RECURSIVE SumCosts(_, _)
SumCosts(rows, i) ==
    IF i > Len(rows) THEN Zero ELSE Add(rows[i].cost, SumCosts(rows, i + 1))

MonthContexts ==
    UNION {{[daysInMonth |-> n, daysElapsed |-> e] : e \in 1..n} : n \in 1..MaxDays}

\* windows passed to computeWmaDaily_: the configured one, a shorter one and none
Windows == {0, 2, WMA_WINDOW_DAYS}

\* observations of a report that need not be one row per day: days of the
\* current month, and days of the previous month (the account's THIS_MONTH
\* when the sheet's time zone is already in the next month)
IrregularObs(ctx) ==
    {Obs(TRUE, d, c) : d \in 1..ctx.daysInMonth, c \in {1, MaxCost}}
        \cup {Obs(FALSE, d, 1) : d \in 1..(ctx.daysInMonth + 1)}

\* inputs with an irregular report, on the last day of the month
InitIrregular ==
    /\ mCtx = [daysInMonth |-> MaxDays, daysElapsed |-> MaxDays]
    /\ report \in SeqsUpTo(IrregularObs(mCtx), MaxObs)
    /\ monthlyBudget = R(MaxBudget)
    /\ spendMtd = SumCosts(report, 1)
    /\ window = WMA_WINDOW_DAYS

\* inputs with one report row per elapsed day
InitRegular ==
    /\ mCtx \in MonthContexts
    /\ \E c \in [1..mCtx.daysElapsed -> 0..MaxCost] :
           report = [d \in 1..mCtx.daysElapsed |-> Obs(TRUE, d, c[d])]
    /\ monthlyBudget \in {R(0), R(MaxBudget)}
    /\ spendMtd \in {R(0), R(MaxSpend)}
    /\ window \in Windows

\* month contexts of the shortest and the longest calendar month, on day 8
\* and on the last day
CalendarContexts ==
    UNION {{[daysInMonth |-> n, daysElapsed |-> e] : e \in {8, n}} : n \in {28, 31}}

ObsIf(day, cost) == IF cost > 0 THEN <<Obs(TRUE, day, cost)>> ELSE <<>>

\* inputs of a calendar month with the configured window: spend on today, on
\* the oldest day of the window and on the day before the window, reported
\* newest first
InitCalendar ==
    /\ mCtx \in CalendarContexts
    /\ \E c \in [1..3 -> 0..MaxCost] :
           report = ObsIf(mCtx.daysElapsed, c[3])
                        \o ObsIf(mCtx.daysElapsed - WMA_WINDOW_DAYS + 1, c[2])
                        \o ObsIf(mCtx.daysElapsed - WMA_WINDOW_DAYS, c[1])
    /\ monthlyBudget = R(MaxBudget)
    /\ spendMtd = R(MaxSpend)
    /\ window = WMA_WINDOW_DAYS

ScenarioReport == [d \in 1..5 |-> Obs(TRUE, d, 200)]

\* section 8 of the specification: 200 a day on days 1-5, then nothing, day 10
\* of a 30-day month
InitScenario ==
    /\ mCtx = [daysInMonth |-> 30, daysElapsed |-> 10]
    /\ report = ScenarioReport
    /\ monthlyBudget = R(3000)
    /\ spendMtd = R(1000)
    /\ window = WMA_WINDOW_DAYS

\* an observation of the current month with a cost in tenths
ObsTenths(day, c) == [date |-> Date(TRUE, day), cost |-> Literal(c, 10)]

\* inputs whose costs are not whole numbers: three observations on the first
\* two days of a three-day month, in any order
InitDecimal ==
    /\ mCtx = [daysInMonth |-> 3, daysElapsed |-> 2]
    /\ report \in [1..3 -> {ObsTenths(d, c) : d \in 1..2, c \in 1..MaxTenths}]
    /\ monthlyBudget = Literal(7, 10)
    /\ spendMtd = SumCosts(report, 1)
    /\ window = WMA_WINDOW_DAYS

\* inputs with three observations of whole costs on the first day of the
\* month
InitSameDay ==
    /\ mCtx = [daysInMonth |-> MaxDays, daysElapsed |-> MaxDays]
    /\ report \in [1..3 -> {Obs(TRUE, 1, c) : c \in 1..MaxCost}]
    /\ monthlyBudget = R(MaxBudget)
    /\ spendMtd = SumCosts(report, 1)
    /\ window = WMA_WINDOW_DAYS

NoRow == [none |-> TRUE]

TrendIdle == trendIn = Zero /\ trendOut = ""
MonthIdle == today = [y |-> 1970, m |-> 1, d |-> 1]
SheetIdle ==
    /\ config = <<>>
    /\ seed = [added |-> 0, namesUpdated |-> 0, totalRows |-> 0]
    /\ processedIds = {}
    /\ mcc = {}
    /\ appendLog = <<>>
MainIdle ==
    /\ cfgIndex = <<>>
    /\ cfgRows = <<>>
    /\ chunkStart = 0
    /\ iter = <<>>
    /\ yielded = 0
    /\ totals = [processed |-> 0, skipped |-> 0, errors |-> 0]
    /\ overviewRows = <<>>
    /\ lastOutcome = "none"

Init ==
    /\ pc = "start"
    /\ \/ InitIrregular
       \/ InitRegular
       \/ InitCalendar
       \/ InitScenario
       \/ InitDecimal
       \/ InitSameDay
    /\ daily = <<>>
    /\ perDay = <<>>
    /\ wmaDaily = Zero
    /\ kpis = NoRow
    /\ overviewRow = NoRow
    /\ TrendIdle
    /\ MainIdle
    /\ MonthIdle
    /\ SheetIdle

\* line 137
GetDailySpend ==
    /\ pc = "start"
    /\ daily' = getDailySpendThisMonth_(report)
    /\ pc' = "daily"
    /\ UNCHANGED <<report, monthlyBudget, mCtx, spendMtd, window, perDay,
                   wmaDaily, kpis, overviewRow, trendVars, mainVars,
                   monthVars, sheetVars>>

\* line 138
BuildPerDayRows ==
    /\ pc = "daily"
    /\ perDay' = buildPerDayRows_(daily, monthlyBudget, mCtx)
    /\ pc' = "built"
    /\ UNCHANGED <<report, daily, monthlyBudget, mCtx, spendMtd, window,
                   wmaDaily, kpis, overviewRow, trendVars, mainVars,
                   monthVars, sheetVars>>

\* line 140
ComputeWma ==
    /\ pc = "built"
    /\ wmaDaily' = computeWmaDaily_(perDay, mCtx.daysElapsed, window)
    /\ pc' = "wma"
    /\ UNCHANGED <<report, daily, monthlyBudget, mCtx, spendMtd, window,
                   perDay, kpis, overviewRow, trendVars, mainVars,
                   monthVars, sheetVars>>

\* line 141
ApplyWmaForecast ==
    /\ pc = "wma"
    /\ perDay' = applyWmaForecast_(perDay, mCtx, spendMtd, wmaDaily)
    /\ pc' = "forecast"
    /\ UNCHANGED <<report, daily, monthlyBudget, mCtx, spendMtd, window,
                   wmaDaily, kpis, overviewRow, trendVars, mainVars,
                   monthVars, sheetVars>>

\* lines 135, 145-158
WriteAccountSheet ==
    /\ pc = "forecast"
    /\ kpis' = AccountSheetKpis(monthlyBudget, spendMtd,
                                MathMax(Sub(monthlyBudget, spendMtd), Zero),
                                mCtx, wmaDaily)
    /\ pc' = "sheet"
    /\ UNCHANGED <<report, daily, monthlyBudget, mCtx, spendMtd, window,
                   perDay, wmaDaily, overviewRow, trendVars, mainVars,
                   monthVars, sheetVars>>

\* lines 161-188
PushOverviewRow ==
    /\ pc = "sheet"
    /\ overviewRow' = OverviewRow(monthlyBudget, spendMtd,
                                  MathMax(Sub(monthlyBudget, spendMtd), Zero),
                                  mCtx, wmaDaily)
    /\ pc' = "done"
    /\ UNCHANGED <<report, daily, monthlyBudget, mCtx, spendMtd, window,
                   perDay, wmaDaily, kpis, trendVars, mainVars,
                   monthVars, sheetVars>>

Next ==
    \/ GetDailySpend
    \/ BuildPerDayRows
    \/ ComputeWma
    \/ ApplyWmaForecast
    \/ WriteAccountSheet
    \/ PushOverviewRow

Spec == Init /\ [][Next]_vars

SteadyReport == [d \in 1..10 |-> Obs(TRUE, d, 100)]

\* section 8 of the specification: 100 on each of the first 10 days of a
\* 30-day month with a budget of 3000
InitSteady ==
    /\ mCtx = [daysInMonth |-> 30, daysElapsed |-> 10]
    /\ report = SteadyReport
    /\ monthlyBudget = R(3000)
    /\ spendMtd = R(1000)
    /\ window = WMA_WINDOW_DAYS

\* half of a 30-day month gone with a budget of 40: spend around the target
\* of 20
InitNearTarget ==
    /\ mCtx = [daysInMonth |-> 30, daysElapsed |-> 15]
    /\ monthlyBudget = R(40)
    /\ \E s \in 19..21 : spendMtd = R(s) /\ report = <<Obs(TRUE, 15, s)>>
    /\ window = WMA_WINDOW_DAYS

\* the computation for one account on reports with a row for every elapsed
\* day, on calendar months, on the steady scenario, with costs in tenths and
\* with spend around the target
InitOverview ==
    /\ pc = "start"
    /\ InitRegular \/ InitCalendar \/ InitSteady \/ InitDecimal \/ InitNearTarget
    /\ daily = <<>>
    /\ perDay = <<>>
    /\ wmaDaily = Zero
    /\ kpis = NoRow
    /\ overviewRow = NoRow
    /\ TrendIdle
    /\ MainIdle
    /\ MonthIdle
    /\ SheetIdle

SpecOverview == InitOverview /\ [][Next]_vars

----------------------------------------------------------------------------
(* trendLabel_ applied to a pace delta *)

\* pace deltas in thousandths, the two boundary values of the
\* specification's section 8 with their mirror images, the delta of 21 spent
\* against a target of 20, and deltas whose hundredfold is just below a half
TrendInputs ==
    {Literal(k, 1000) : k \in (-MaxTrendPermille)..MaxTrendPermille}
        \cup {Literal(500001, 10000000), Literal(-500001, 10000000),
              Sub(Div(R(21), R(20)), R(1)),
              Literal(145, 1000), Literal(-145, 1000), Literal(285, 1000),
              Literal(1005, 1000)}

EngineIdle ==
    /\ report = <<>>
    /\ daily = <<>>
    /\ monthlyBudget = Zero
    /\ mCtx = [daysInMonth |-> 1, daysElapsed |-> 1]
    /\ spendMtd = Zero
    /\ window = WMA_WINDOW_DAYS
    /\ perDay = <<>>
    /\ wmaDaily = Zero
    /\ kpis = NoRow
    /\ overviewRow = NoRow

InitTrend ==
    /\ pc = "trend"
    /\ trendIn \in TrendInputs
    /\ trendOut = ""
    /\ EngineIdle
    /\ MainIdle
    /\ MonthIdle
    /\ SheetIdle

ApplyTrendLabel ==
    /\ pc = "trend"
    /\ trendOut' = trendLabel_(trendIn)
    /\ pc' = "trended"
    /\ UNCHANGED <<trendIn, engineVars, mainVars, monthVars, sheetVars>>

NextTrend == ApplyTrendLabel

SpecTrend == InitTrend /\ [][NextTrend]_vars

----------------------------------------------------------------------------
(* The Config sheet and readConfig_, lines 400-425 *)

(* A string is a sequence of one-character strings.  A cell value, as      *)
(* getValues returns it, is a boolean, a number or a string; the value of  *)
(* an empty cell is the empty string.                                      *)

Bool(b) == [t |-> "bool", b |-> b]
Num(x) == [t |-> "num", v |-> x]
Text(s) == [t |-> "text", s |-> s]
Blank == Text(<<>>)

IsNotDash(c) == c # "-"

\* s.replace(/-/g, '')
RemoveDashes(s) == SelectSeq(s, IsNotDash)

\* /^\d+$/.test(s)
AllDigits(s) == s # <<>> /\ \A i \in 1..Len(s) : s[i] \in DigitChars

\* the whole number a short run of digits writes
RECURSIVE DecimalValue(_)
DecimalValue(s) ==
    IF s = <<>> THEN 0
    ELSE 10 * DecimalValue(SubSeq(s, 1, Len(s) - 1)) + DigitValue(s[Len(s)])

\* Number(cell)
CellToNumber(c) ==
    CASE c.t = "num" -> c.v
      [] c.t = "bool" -> (IF c.b THEN R(1) ELSE Zero)
      [] c.t = "text" -> StringToNumber(c.s)

\* cell.toString()
CellToString(c) ==
    CASE c.t = "text" -> c.s
      [] c.t = "bool" -> (IF c.b THEN <<"t", "r", "u", "e">>
                                 ELSE <<"f", "a", "l", "s", "e">>)
      [] c.t = "num" -> NumToChars(c.v)

Falsy(c) ==
    CASE c.t = "bool" -> ~c.b
      [] c.t = "num" -> IsZero(c.v) \/ IsNaN(c.v)
      [] c.t = "text" -> c.s = <<>>

\* cell || dflt
OrElse(c, dflt) == IF Falsy(c) THEN dflt ELSE c

\* the accounts of the MCC
AccountIds == 1..MaxAccounts

\* acct.getCustomerId(): the customer id of account n as the API renders it
CustomerId(n) == <<ToString(n), "-", ToString(n)>>

\* acct.getName()
AccountName(n) == <<"A", ToString(n)>>

\* a data row of the Config sheet: Account ID, Account Name, Monthly Budget,
\* Include
ConfigRow(id, name, budget, include) == <<id, name, budget, include>>

\* only an explicit FALSE excludes a row
includeOf(includeCell) ==
    ~(includeCell = Bool(FALSE) \/ includeCell = Text(<<"F", "A", "L", "S", "E">>))

IndexPut(index, k, v) ==
    [x \in (DOMAIN index) \cup {k} |-> IF x = k THEN v ELSE index[x]]

\* the duplicate check done on every row that carries an id, whether the row
\* is kept or not
seenAfterAnyRow(seen, acctId, kept) == seen \cup {acctId}

\* line 420: an id is marked as seen when its row is kept
seenAfter(seen, acctId, kept) == IF kept THEN seen \cup {acctId} ELSE seen

\* line 418, negated: the row is neither excluded nor without a budget
passesFilter(include, budget) == ~(~include \/ Le(budget, Zero))

RECURSIVE readConfigLoop(_, _, _, _)

\* lines 416-423 on row i, whose cells were read as acctId, acctName, budget
\* and include
readConfigRow(data, i, out, seen, acctId, acctName, budget, include) ==
    IF acctId = <<>> \/ ~AllDigits(acctId)
    THEN readConfigLoop(data, i + 1, out, seen)
    ELSE IF acctId \in seen
    THEN readConfigLoop(data, i + 1, out, seen)
    ELSE IF ~passesFilter(include, budget)
    THEN readConfigLoop(data, i + 1, out, seenAfter(seen, acctId, FALSE))
    ELSE LET entry == [accountId |-> acctId, accountName |-> acctName,
                       monthlyBudget |-> budget]
         IN readConfigLoop(data, i + 1,
                           [rows  |-> Append(out.rows, entry),
                            index |-> IndexPut(out.index, acctId, entry)],
                           seenAfter(seen, acctId, TRUE))

\* lines 407-414: the cells of row i
readConfigLoop(data, i, out, seen) ==
    IF i > Len(data) THEN out
    ELSE readConfigRow(data, i, out, seen,
                       RemoveDashes(Trim(CellToString(OrElse(data[i][1], Blank)))),
                       Trim(CellToString(OrElse(data[i][2], Blank))),
                       CellToNumber(OrElse(data[i][3], Num(Zero))),
                       includeOf(data[i][4]))

readConfig_(data) == readConfigLoop(data, 1, [rows |-> <<>>, index |-> <<>>], {})

\* the account id, the budget and the filter of a data row of the sheet, as
\* readConfig_ reads them
rowAcctId(row) == RemoveDashes(Trim(CellToString(OrElse(row[1], Blank))))
rowBudget(row) == CellToNumber(OrElse(row[3], Num(Zero)))
rowHasId(row) == AllDigits(rowAcctId(row))

\* what a Config sheet may hold in the Account ID column: the ids of accounts
\* 1 and 2 as digits
PlainIdCells ==
    {Text(RemoveDashes(CustomerId(1))), Text(RemoveDashes(CustomerId(2)))}

\* the id of account 1 with dashes after a tab, and as a number, a text that
\* is no id, and nothing
OtherIdCells ==
    {Text(<<"\t">> \o CustomerId(1)),
     Num(R(DecimalValue(RemoveDashes(CustomerId(1))))), Text(<<"x">>), Blank}

\* in the Monthly Budget column: nothing, a positive number, and texts that
\* read as a negative number, as a positive number and as no number
BudgetCells ==
    {Blank, Num(R(MaxBudget)), Text(<<"-", "0", ".", "5">>),
     Text(<<"2", ".", "5">>), Text(<<"2", "k">>)}

\* in the Include column
IncludeCells == {Bool(TRUE), Bool(FALSE), Text(<<"F", "A", "L", "S", "E">>)}

\* the rows of the Config sheets: a plain id with any budget, a plain id
\* excluded, with and without a budget, and the other ids with a positive
\* and with a negative budget
ConfigRows ==
    {ConfigRow(id, Text(<<"A">>), b, Bool(TRUE)) :
        id \in PlainIdCells, b \in BudgetCells}
    \cup {ConfigRow(id, Text(<<"A">>), b, inc) :
              id \in PlainIdCells, b \in {Blank, Num(R(MaxBudget))},
              inc \in IncludeCells \ {Bool(TRUE)}}
    \cup {ConfigRow(id, Text(<<"A">>), b, Bool(TRUE)) :
              id \in OtherIdCells,
              b \in {Num(R(MaxBudget)), Text(<<"-", "0", ".", "5">>)}}

InitConfig ==
    /\ pc = "sheet"
    /\ config \in SeqsUpTo(ConfigRows, MaxRows)
    /\ seed = [added |-> 0, namesUpdated |-> 0, totalRows |-> 0]
    /\ processedIds = {}
    /\ mcc = {}
    /\ appendLog = <<>>
    /\ EngineIdle
    /\ TrendIdle
    /\ MainIdle
    /\ MonthIdle

\* line 108
ReadConfig ==
    /\ pc = "sheet"
    /\ \E cfg \in {readConfig_(config)} :
          /\ cfgRows' = cfg.rows
          /\ cfgIndex' = cfg.index
    /\ pc' = "cfg"
    /\ UNCHANGED <<engineVars, trendVars, monthVars, sheetVars, chunkStart,
                   iter, yielded, totals, overviewRows, lastOutcome>>

NextConfig == ReadConfig

SpecConfig == InitConfig /\ [][NextConfig]_vars

----------------------------------------------------------------------------
(* main's account loop, lines 108-201 *)

\* line 112: cfg.rows.map(r => r.accountId)
idsOf(rows) == [k \in 1..Len(rows) |-> rows[k].accountId]

\* Config sheets of the runs of the account loop: rows with a budget for any
\* account, and a row for account 1 whose budget is still blank
MainConfigRows ==
    {ConfigRow(Text(RemoveDashes(CustomerId(n))), Text(AccountName(n)),
               Num(R(MaxBudget)), Bool(TRUE)) : n \in AccountIds}
        \cup {ConfigRow(Text(CustomerId(1)), Text(AccountName(1)), Blank,
                        Bool(TRUE))}

\* what MccApp.accounts().withIds(...).get() may yield: accounts of the MCC,
\* each at most once, in any order
IteratorYields ==
    {q \in SeqsUpTo(AccountIds, MaxAccounts) :
        \A i, j \in 1..Len(q) : i # j => q[i] # q[j]}

\* the statements of the try block that call out of the script and may throw
TrySteps == {"select", "currency", "stats", "report", "sheet", "write"}

\* a loop body without the try/catch: the exception leaves main
TryOutcomeUncaught(tot, threw) ==
    IF threw THEN [pc |-> "aborted", totals |-> tot]
    ELSE [pc |-> "iterate", totals |-> [tot EXCEPT !.processed = @ + 1]]

\* the try/catch of lines 127-194: where the loop goes on and what is counted
TryOutcome(tot, threw) ==
    [pc     |-> "iterate",
     totals |-> IF threw THEN [tot EXCEPT !.errors = @ + 1]
                         ELSE [tot EXCEPT !.processed = @ + 1]]

InitMain ==
    /\ pc = "config"
    /\ config \in SeqsUpTo(MainConfigRows, MaxRows)
    /\ cfgIndex = <<>>
    /\ chunkStart = 0
    /\ iter = <<>>
    /\ yielded = 0
    /\ totals = [processed |-> 0, skipped |-> 0, errors |-> 0]
    /\ overviewRows = <<>>
    /\ lastOutcome = "none"
    /\ EngineIdle
    /\ TrendIdle
    /\ MonthIdle
    /\ seed = [added |-> 0, namesUpdated |-> 0, totalRows |-> 0]
    /\ processedIds = {}
    /\ mcc = {}
    /\ appendLog = <<>>
    /\ cfgRows = <<>>

\* lines 108-117
StartRun ==
    /\ pc = "config"
    /\ \E cfg \in {readConfig_(config)} :
          /\ cfgRows' = cfg.rows
          /\ cfgIndex' = cfg.index
          /\ pc' = IF Len(cfg.rows) = 0 THEN "returned" ELSE "chunk"
    /\ UNCHANGED <<engineVars, trendVars, monthVars, sheetVars, chunkStart,
                   iter, yielded, totals, overviewRows, lastOutcome>>

\* lines 119-120
OpenIterator ==
    /\ pc = "chunk"
    /\ chunkStart < Len(idsOf(cfgRows))
    /\ iter' \in IteratorYields
    /\ pc' = "iterate"
    /\ UNCHANGED <<monthVars, sheetVars, engineVars, trendVars, cfgIndex,
                   cfgRows, chunkStart, yielded,
                   totals, overviewRows, lastOutcome>>

\* lines 121-195: one pass of the while loop
IterateAccount ==
    /\ pc = "iterate"
    /\ iter # <<>>
    /\ iter' = Tail(iter)
    /\ yielded' = yielded + 1
    /\ LET acctId == RemoveDashes(CustomerId(Head(iter)))
       IN IF acctId \notin DOMAIN cfgIndex
          THEN /\ totals' = [totals EXCEPT !.skipped = @ + 1]
               /\ lastOutcome' = "skipped"
               /\ pc' = "iterate"
               /\ UNCHANGED overviewRows
          ELSE \E throwAt \in TrySteps \cup {"none"} :
                  LET out == TryOutcome(totals, throwAt # "none")
                  IN /\ totals' = out.totals
                     /\ pc' = out.pc
                     /\ lastOutcome' = IF throwAt = "none" THEN "processed"
                                                           ELSE "error"
                     /\ overviewRows' = IF throwAt = "none"
                                        THEN Append(overviewRows, acctId)
                                        ELSE overviewRows
    /\ UNCHANGED <<monthVars, sheetVars, engineVars, trendVars, cfgIndex,
                   cfgRows, chunkStart>>

\* the while loop ends and the for loop steps: i += 50
CloseIterator ==
    /\ pc = "iterate"
    /\ iter = <<>>
    /\ chunkStart' = chunkStart + ChunkSize
    /\ pc' = "chunk"
    /\ UNCHANGED <<monthVars, sheetVars, engineVars, trendVars, cfgIndex,
                   cfgRows, iter, yielded, totals,
                   overviewRows, lastOutcome>>

\* lines 198-201
EndRun ==
    /\ pc = "chunk"
    /\ chunkStart >= Len(idsOf(cfgRows))
    /\ pc' = "done"
    /\ UNCHANGED <<engineVars, trendVars, mainVars,
                   monthVars, sheetVars>>

NextMain ==
    \/ StartRun
    \/ OpenIterator
    \/ IterateAccount
    \/ CloseIterator
    \/ EndRun

SpecMain == InitMain /\ [][NextMain]_vars

----------------------------------------------------------------------------
(* seedOrMergeConfigWithAccounts_, lines 287-323, and runs of main *)

\* line 296: the id of a row as the seeding reads it, without the dashes
seedRowIdAsWritten(cell) == Trim(CellToString(OrElse(cell, Blank)))

\* line 296
seedRowId(cell) == Trim(RemoveDashes(CellToString(OrElse(cell, Blank))))

\* lines 293-299: row i of the data is row i + 1 of the sheet
RECURSIVE seedMapLoop(_, _, _)

\* lines 296-297 on row i, whose id cell was read as id
seedMapRow(data, i, map, id) ==
    IF ~AllDigits(id) THEN seedMapLoop(data, i + 1, map)
    ELSE seedMapLoop(data, i + 1,
            IndexPut(map, id,
                     [rowIndex |-> i + 1,
                      name |-> CellToString(OrElse(data[i][2], Blank))]))

seedMapLoop(data, i, map) ==
    IF i > Len(data) THEN map
    ELSE seedMapRow(data, i, map, seedRowId(data[i][1]))

\* line 311: include TRUE by default, the budget left empty
seededRow(id, name) == ConfigRow(Text(id), Text(name), Blank, Bool(TRUE))

\* lines 303-314: st holds map, the data of the sheet, toAppend and
\* namesUpdated; rowIndex 0 stands for null
RECURSIVE seedLoop(_, _, _)
seedLoop(accts, k, st) ==
    IF k > Len(accts) THEN st
    ELSE LET id == RemoveDashes(CustomerId(accts[k]))
             name == AccountName(accts[k])
         IN IF id \in DOMAIN st.map
            THEN IF name # <<>> /\ st.map[id].name # name
                 THEN seedLoop(accts, k + 1,
                        [st EXCEPT
                            !.data[st.map[id].rowIndex - 1][2] = Text(name),
                            !.namesUpdated = @ + 1])
                 ELSE seedLoop(accts, k + 1, st)
            ELSE seedLoop(accts, k + 1,
                    [st EXCEPT
                        !.toAppend = Append(@, seededRow(id, name)),
                        !.map = IndexPut(@, id, [rowIndex |-> 0, name |-> name])])

\* data: the data rows of the sheet; accts: the accounts in the order the
\* iterator yields them
\* lines 316-322: the rows are appended and the counts returned
seedWrite(st) ==
    [data   |-> st.data \o st.toAppend,
     result |-> [added |-> Len(st.toAppend),
                 namesUpdated |-> st.namesUpdated,
                 totalRows |-> Len(st.data) + Len(st.toAppend)]]

seedOrMergeConfigWithAccounts_(data, accts) ==
    seedWrite(seedLoop(accts, 1,
                       [map |-> seedMapLoop(data, 1, <<>>), data |-> data,
                        toAppend |-> <<>>, namesUpdated |-> 0]))

\* the accounts that are linked to the MCC in the course of the runs
LinkableAccounts == 1..MaxLinked

\* the orders in which an iterator may yield the accounts of S
OrdersOf(S) ==
    {q \in [1..Cardinality(S) -> S] :
        \A i, j \in 1..Cardinality(S) : i # j => q[i] # q[j]}

\* rows a user has typed before the first run: account 1 with dashes, another
\* name and a budget; account 1 as a number, excluded; a row without an id
UserRows ==
    {ConfigRow(Text(CustomerId(1)), Text(<<"o", "l", "d">>),
               Num(R(MaxBudget)), Bool(TRUE)),
     ConfigRow(Num(R(DecimalValue(RemoveDashes(CustomerId(1))))),
               Text(AccountName(1)), Blank, Bool(FALSE)),
     ConfigRow(Text(<<"x">>), Blank, Blank, Blank)}

InitRuns ==
    /\ pc = "fresh"
    /\ config \in {<<>>} \cup {<<r>> : r \in UserRows}
    /\ mcc \in {{}, {1}}
    /\ appendLog = <<>>
    /\ seed = [added |-> 0, namesUpdated |-> 0, totalRows |-> 0]
    /\ processedIds = {}
    /\ EngineIdle
    /\ TrendIdle
    /\ MainIdle
    /\ MonthIdle

\* the values of pc while a run of main is between line 103 and line 108:
\* "seeded" when the account list is as the seeding saw it, "seededLinked"
\* when an account has been linked since
InRun == {"seeded", "seededLinked"}

\* lines 100-104 of main: a run starts and seeds the sheet. main holds no lock
\* on the spreadsheet, and prepareOverview_ (line 106) calls the spreadsheet
\* service before readConfig_ (line 108) reads the sheet again, so the run is
\* two steps and the sheet may be edited in between. The seeding writes
\* column 2 of the rows it found and the rows it appends, which no edit of
\* the model touches, so the seeding itself is one step.
SeedConfig ==
    /\ pc \notin InRun
    /\ \E accts \in OrdersOf(mcc) :
       \E seeded \in {seedOrMergeConfigWithAccounts_(config, accts)} :
             /\ config' = seeded.data
             /\ seed' = seeded.result
             /\ appendLog' = appendLog
                    \o [k \in 1..seeded.result.added |->
                            rowAcctId(seeded.data[Len(config) + k])]
    /\ pc' = "seeded"
    /\ UNCHANGED <<engineVars, trendVars, monthVars, mainVars, mcc,
                   processedIds>>

\* lines 108-195 of main: line 108 reads the sheet as it is by then, and the
\* loop of lines 119-195 processes accounts of the index unless they fail;
\* nothing after line 108 reads the Config sheet
ProcessConfig ==
    /\ pc \in InRun
    /\ \E cfg \in {readConfig_(config)} :
          /\ cfgRows' = cfg.rows
          /\ cfgIndex' = cfg.index
          /\ processedIds' \in
                 SUBSET {a \in DOMAIN cfg.index :
                            \E n \in mcc : RemoveDashes(CustomerId(n)) = a}
    /\ pc' = IF pc = "seeded" THEN "ran" ELSE "linked"
    /\ UNCHANGED <<engineVars, trendVars, monthVars, config, seed, mcc,
                   appendLog, chunkStart, iter, yielded, totals,
                   overviewRows, lastOutcome>>

\* the value of pc after the user has edited a cell
afterEdit(p) == IF p = "ran" THEN "edited" ELSE p

\* step 5 of the setup instructions: the user fills in the budget of a row
FillBudget ==
    /\ \E i \in 1..Len(config) :
          /\ config[i][3] = Blank
          /\ config' = [config EXCEPT ![i][3] = Num(R(MaxBudget))]
    /\ pc' = afterEdit(pc)
    /\ UNCHANGED <<engineVars, trendVars, monthVars, mainVars, seed,
                   processedIds, mcc, appendLog>>

\* the user excludes a row
ExcludeRow ==
    /\ \E i \in 1..Len(config) :
          /\ config[i][4] = Bool(TRUE)
          /\ config' = [config EXCEPT ![i][4] = Bool(FALSE)]
    /\ pc' = afterEdit(pc)
    /\ UNCHANGED <<engineVars, trendVars, monthVars, mainVars, seed,
                   processedIds, mcc, appendLog>>

\* an account is linked to the MCC
LinkAccount ==
    /\ \E n \in LinkableAccounts \ mcc : mcc' = mcc \cup {n}
    /\ pc' = IF pc = "fresh" THEN "fresh"
             ELSE IF pc \in InRun THEN "seededLinked" ELSE "linked"
    /\ UNCHANGED <<engineVars, trendVars, monthVars, mainVars, config, seed,
                   processedIds, appendLog>>

NextRuns ==
    \/ SeedConfig
    \/ ProcessConfig
    \/ FillBudget
    \/ ExcludeRow
    \/ LinkAccount

SpecRuns == InitRuns /\ [][NextRuns]_vars

----------------------------------------------------------------------------
(* monthMeta_, lines 564-573 *)

(* A Date of the script is an instant, counted here in hours from the      *)
(* midnight that starts 1970-01-01 on the standard-time clock of the       *)
(* script's time zone.  Date objects of a Google Ads script live in        *)
(* America/Los_Angeles: clocks go forward one hour on the second Sunday of *)
(* March and back on the first Sunday of November, at 2 a.m.               *)

\* days from 1970-01-01 to the civil date y-m-d
DaysFromCivil(y, m, d) ==
    LET yy  == IF m <= 2 THEN y - 1 ELSE y
        era == yy \div 400
        yoe == yy - era * 400
        mp  == IF m > 2 THEN m - 3 ELSE m + 9
        doy == (153 * mp + 2) \div 5 + d - 1
        doe == yoe * 365 + yoe \div 4 - yoe \div 100 + doy
    IN era * 146097 + doe - 719468

\* the civil date of day number z
CivilFromDays(z) ==
    LET zz  == z + 719468
        era == zz \div 146097
        doe == zz - era * 146097
        yoe == (doe - doe \div 1460 + doe \div 36524 - doe \div 146096) \div 365
        doy == doe - (365 * yoe + yoe \div 4 - yoe \div 100)
        mp  == (5 * doy + 2) \div 153
        m   == IF mp < 10 THEN mp + 3 ELSE mp - 9
    IN [y |-> yoe + era * 400 + (IF m <= 2 THEN 1 ELSE 0),
        m |-> m,
        d |-> doy - (153 * mp + 2) \div 5 + 1]

\* 0 = Sunday; 1970-01-01 was a Thursday
Weekday(z) == (z + 4) % 7

\* day number of the first Sunday of month m of year y
FirstSunday(y, m) ==
    LET z == DaysFromCivil(y, m, 1) IN z + ((7 - Weekday(z)) % 7)

\* daylight saving time with the clocks of most of Europe: from the last
\* Sunday of March to the last Sunday of October
DstAtMidnightLastSundays(z) ==
    LET y == CivilFromDays(z).y
    IN /\ z > FirstSunday(y, 4) - 7
       /\ z <= FirstSunday(y, 11) - 7

\* is daylight saving time in force at the midnight that starts day z
DstAtMidnight(z) ==
    LET y == CivilFromDays(z).y
    IN /\ z > FirstSunday(y, 3) + 7
       /\ z <= FirstSunday(y, 11)

\* the instant of the midnight that starts day z
StartOfDay(z) == HoursPerDay * z - (IF DstAtMidnight(z) THEN 1 ELSE 0)

\* new Date(y, m0, d): a month index of 12 carries into the year
NewDate(y, m0, d) == StartOfDay(DaysFromCivil(y + m0 \div 12, (m0 % 12) + 1, d))

\* the day number of the local day that holds instant t
LocalDay(t) ==
    CHOOSE z \in (t \div HoursPerDay - 1)..(t \div HoursPerDay + 1) :
        StartOfDay(z) <= t /\ t < StartOfDay(z + 1)

\* Date.prototype.getDate of the Date at instant t
DateGetDate(t) == CivilFromDays(LocalDay(t)).d

monthMeta_(td) ==
    LET y     == td.y
        m0    == td.m - 1
        first == NewDate(y, m0, 1)
        next  == NewDate(y, m0 + 1, 1)
        end   == next - HoursPerDay
        daysInMonth == DateGetDate(end)
        daysElapsed == Min(td.d, daysInMonth)
    IN [y |-> y, m0 |-> m0, first |-> first,
        daysInMonth |-> daysInMonth, daysElapsed |-> daysElapsed]

\* the Gregorian calendar
IsLeapYear(y) == (y % 4 = 0 /\ y % 100 # 0) \/ y % 400 = 0
CalendarDays(y, m) ==
    IF m = 2 THEN (IF IsLeapYear(y) THEN 29 ELSE 28)
    ELSE IF m \in {4, 6, 9, 11} THEN 30
    ELSE 31

\* the years of the reference dates: consecutive years from 2024 on, a
\* century year that is no leap year and one that is
Years == 2024..(2024 + MaxYears) \cup {2100, 2400}

ReferenceDates ==
    UNION {UNION {{[y |-> y, m |-> m, d |-> d] : d \in 1..CalendarDays(y, m)}
                     : m \in 1..12} : y \in Years}

InitMonth ==
    /\ pc = "today"
    /\ today \in ReferenceDates
    /\ EngineIdle
    /\ TrendIdle
    /\ MainIdle
    /\ SheetIdle

\* line 131
MonthMeta ==
    /\ pc = "today"
    /\ mCtx' = monthMeta_(today)
    /\ pc' = "month"
    /\ UNCHANGED <<report, daily, monthlyBudget, spendMtd, window, perDay,
                   wmaDaily, kpis, overviewRow, trendVars, mainVars,
                   monthVars, sheetVars>>

NextMonth == MonthMeta

SpecMonth == InitMonth /\ [][NextMonth]_vars

----------------------------------------------------------------------------
(* Properties *)

AfterBuild == pc \in {"built", "wma", "forecast", "sheet", "done"}
AfterWma == pc \in {"wma", "forecast", "sheet", "done"}
AfterForecast == pc \in {"forecast", "sheet", "done"}

\* C1: once applyWmaForecast_ has run, every row of a day d with
\* 1 <= d <= daysElapsed has cumForecastWma equal to its cumSpend, whatever
\* spendMtd and wmaDaily are.
C1_ForecastEqualsActualsWhenElapsed ==
    AfterForecast =>
        \A d \in 1..Len(perDay) :
            d <= mCtx.daysElapsed => perDay[d].cumForecastWma = perDay[d].cumSpend

\* the forecast has run with a spendMtd that differs from the summed daily
\* costs of the elapsed days and a non-zero daily average
C1_Witness ==
    /\ pc = "forecast"
    /\ perDay[mCtx.daysElapsed].cumSpend # spendMtd
    /\ perDay[mCtx.daysElapsed].cumSpend # Zero
    /\ wmaDaily # Zero
    /\ mCtx.daysElapsed < mCtx.daysInMonth

\* sum of weight * cost over the j newest of the n days daysElapsed-n+1 ..
\* daysElapsed, where day daysElapsed-n+k has weight k, added up from the
\* newest day on
RECURSIVE WeightedCosts(_, _, _, _)
WeightedCosts(rows, daysElapsed, n, j) ==
    IF j = 0 THEN Zero
    ELSE Add(WeightedCosts(rows, daysElapsed, n, j - 1),
             Mul(R(n - j + 1), rows[daysElapsed - j + 1].cost))

\* C3: computeWmaDaily_ returns 0 when n = min(W, max(daysElapsed, 0)) <= 0,
\* and otherwise sum(weight * cost) / sum(weight) over the days
\* daysElapsed-n+1 .. daysElapsed with weights 1 (oldest) .. n (newest); W = 7
\* with daysElapsed = 3 weighs days 1..3 with 1, 2, 3, and 200 a day on days
\* 1-5 with daysElapsed = 10 and W = 7 gives 600/28.
C3_WmaIsRecencyWeightedAverage ==
    AfterWma =>
        LET n == Min(window, Max(mCtx.daysElapsed, 0))
        IN /\ n <= 0 => wmaDaily = Zero
           /\ n > 0 =>
                wmaDaily = Div(WeightedCosts(perDay, mCtx.daysElapsed, n, n),
                               R((n * (n + 1)) \div 2))
           /\ (window = 7 /\ mCtx.daysElapsed = 3) =>
                wmaDaily = Div(Add(Add(Mul(R(3), perDay[3].cost),
                                       Mul(R(2), perDay[2].cost)),
                                   Mul(R(1), perDay[1].cost)),
                               R(6))
           /\ (report = ScenarioReport /\ mCtx.daysElapsed = 10 /\ window = 7) =>
                wmaDaily = Literal(600, 28)

\* the average was taken on day 8 with the window of 7: day 1, which has
\* spend, is outside the window, day 2 has weight 1 and day 8 weight 7
C3_Witness ==
    /\ pc = "wma"
    /\ window = 7
    /\ mCtx.daysElapsed = 8
    /\ perDay[1].cost = R(2)
    /\ perDay[2].cost = R(1)
    /\ perDay[8].cost = R(2)
    /\ wmaDaily = Literal(15, 28)

\* C4: the recommendedDailySpend of the overview row (and of the account
\* sheet's KPI block) is never negative, is 0 when remainingDays =
\* max(daysInMonth - daysElapsed, 0) is 0, and is otherwise
\* max((monthlyBudget - spendMtd) / remainingDays, 0).
C4_RecommendedDailySpend ==
    LET rem == Max(mCtx.daysInMonth - mCtx.daysElapsed, 0)
        left == Sub(monthlyBudget, spendMtd)
        expected == IF rem > 0 /\ Gt(left, Zero) THEN Div(left, R(rem)) ELSE Zero
        Ok(rec) == /\ IsFinite(rec)
                   /\ rec.s = 0
                   /\ rem = 0 => rec = Zero
                   /\ rec = expected
    IN /\ pc = "done" => Ok(overviewRow.recDaily)
       /\ pc \in {"sheet", "done"} => Ok(kpis.recDaily)

\* the row was pushed for an account that has overspent its budget with days
\* of the month remaining
C4_Witness ==
    /\ pc = "done"
    /\ Gt(spendMtd, monthlyBudget)
    /\ mCtx.daysElapsed < mCtx.daysInMonth
    /\ overviewRow.recDaily = Zero

\* the integer N with N - 1/2 <= |p| * 100 < N + 1/2
RoundedPercent(p) ==
    LET scaled == Mul(IF Lt(p, Zero) THEN Neg(p) ELSE p, R(100))
    IN CHOOSE N \in 0..MaxTrendPermille :
           /\ Le(Sub(R(N), Literal(1, 2)), scaled)
           /\ Lt(scaled, Add(R(N), Literal(1, 2)))

\* C5: trendLabel_(p) is "On Target" exactly when |p| <= 0.05, both
\* boundaries included, and otherwise "Under N%" for p < 0 and "Over N%" for
\* p > 0 with N = round(|p| * 100); 0.05 gives "On Target" and 0.0500001
\* gives "Over 5%".
C5_TrendLabel ==
    pc = "trended" =>
        LET p == trendIn
            onTarget == Le(Literal(-5, 100), p) /\ Le(p, Literal(5, 100))
        IN /\ (trendOut = "On Target") <=> onTarget
           /\ (~onTarget /\ Lt(p, Zero)) =>
                trendOut = "Under " \o ToString(RoundedPercent(p)) \o "%"
           /\ (~onTarget /\ Gt(p, Zero)) =>
                trendOut = "Over " \o ToString(RoundedPercent(p)) \o "%"
           /\ p = Literal(5, 100) => trendOut = "On Target"
           /\ p = Literal(-5, 100) => trendOut = "On Target"
           /\ p = Literal(500001, 10000000) => trendOut = "Over 5%"

\* the label of a pace delta of exactly 0.05 has been computed
C5_Witness ==
    /\ pc = "trended"
    /\ trendIn = Literal(5, 100)
    /\ trendOut = "On Target"


\* C2: an exception in the try block of one account never stops the loop:
\* the pass counts exactly one error and the while loop goes on with the next
\* account, so that processed + skipped + errors equals the number of
\* accounts yielded and no yielded account is left when the run ends.
C2_ErrorsAreIsolatedAndCounted ==
    /\ [](/\ totals.processed + totals.skipped + totals.errors = yielded
          /\ pc \in {"done", "aborted"} => iter = <<>>)
    /\ [][(pc = "iterate" /\ yielded' = yielded + 1 /\ lastOutcome' = "error")
            => /\ totals' = [totals EXCEPT !.errors = @ + 1]
               /\ pc' = "iterate"
               /\ iter' = Tail(iter)]_vars

\* the run has ended, and the account yielded last was processed after an
\* earlier account of the run had failed
C2_Witness ==
    /\ pc = "done"
    /\ totals.errors >= 1
    /\ totals.skipped >= 1
    /\ lastOutcome = "processed"
    /\ yielded = 3

\* sum of the costs of those of the first i observations of dl that are
\* dated on day d of the current month, added up in the order of dl
RECURSIVE SumOnDay(_, _, _)
SumOnDay(dl, i, d) ==
    IF i = 0 THEN Zero
    ELSE IF dl[i].date = Date(TRUE, d)
         THEN Add(SumOnDay(dl, i - 1, d), dl[i].cost)
         ELSE SumOnDay(dl, i - 1, d)

\* C6: buildPerDayRows_ returns exactly daysInMonth rows, the row at index
\* d-1 is the row of calendar day d, and the cost of a day of the month on
\* which no observation is dated is 0.
C6_OneRowPerDayZeroFilled ==
    AfterBuild =>
        /\ Len(perDay) = mCtx.daysInMonth
        /\ \A d \in 1..Len(perDay) :
              /\ perDay[d].date = Date(TRUE, d)
              /\ (\A i \in 1..Len(daily) : daily[i].date # Date(TRUE, d))
                    => perDay[d].cost = Zero

\* sum of the cost fields of rows 1..d
RECURSIVE RowCosts(_, _)
RowCosts(rows, d) ==
    IF d = 0 THEN Zero ELSE Add(RowCosts(rows, d - 1), rows[d].cost)

\* C7: cumSpend of day d is the sum of the cost fields of days 1..d, the last
\* row's cumSpend is the sum of all costs of the month, and with non-negative
\* costs cumSpend never decreases from one day to the next.
C7_CumSpendAccumulates ==
    AfterBuild =>
        /\ \A d \in 1..Len(perDay) :
              /\ perDay[d].cumSpend = RowCosts(perDay, d)
              /\ d > 1 => Le(perDay[d - 1].cumSpend, perDay[d].cumSpend)
        /\ Len(perDay) > 0 =>
              perDay[Len(perDay)].cumSpend = RowCosts(perDay, Len(perDay))

\* rows were built from spend on two different days
C7_Witness ==
    /\ pc = "built"
    /\ Len(perDay) >= 2
    /\ perDay[1].cost # Zero
    /\ perDay[2].cost # Zero
    /\ perDay[2].cumSpend = Add(perDay[1].cost, perDay[2].cost)

Perms(n) == {f \in [1..n -> 1..n] : \A i, j \in 1..n : i # j => f[i] # f[j]}
Permute(dl, f) == [i \in 1..Len(dl) |-> dl[f[i]]]

\* dl with observation j removed and its cost added to observation i
Merge(dl, i, j) ==
    LET summed == [dl EXCEPT ![i].cost = Add(dl[i].cost, dl[j].cost)]
    IN SubSeq(summed, 1, j - 1) \o SubSeq(summed, j + 1, Len(summed))

\* C8 as stated: buildPerDayRows_ adds up the costs of observations that
\* carry the same date (merging them beforehand changes nothing), and every
\* permutation of the observations yields the same rows.
C8_MergesAndIgnoresOrder ==
    pc = "built" =>
        /\ \A f \in Perms(Len(daily)) :
              buildPerDayRows_(Permute(daily, f), monthlyBudget, mCtx) = perDay
        /\ \A i, j \in 1..Len(daily) :
              (i < j /\ daily[i].date = daily[j].date) =>
                  buildPerDayRows_(Merge(daily, i, j), monthlyBudget, mCtx) = perDay

\* the observations of dl that fall on day d of a month
OnDay(dl, d) == {i \in 1..Len(dl) : getDate(dl[i].date) = d}

\* sum of the costs of those of the first i observations of dl that fall on
\* day d of a month, added up in the order of dl
RECURSIVE SumOfDay(_, _, _)
SumOfDay(dl, i, d) ==
    IF i = 0 THEN Zero
    ELSE IF getDate(dl[i].date) = d
         THEN Add(SumOfDay(dl, i - 1, d), dl[i].cost)
         ELSE SumOfDay(dl, i - 1, d)

\* 2^53: whole numbers that stay below it are added without rounding
TwoTo53 == Fin(0, <<1>>, 53)

\* no rounding can depend on the order in which the costs of day d are added:
\* there are at most two of them, or all are whole numbers, none negative,
\* with a sum below 2^53
OrderFree(dl, d) ==
    \/ Cardinality(OnDay(dl, d)) <= 2
    \/ /\ \A i \in OnDay(dl, d) :
              IsFinite(dl[i].cost) /\ dl[i].cost.s = 0 /\ dl[i].cost.e >= 0
       /\ Lt(SumOfDay(dl, Len(dl), d), TwoTo53)

\* C8, amended: the cost of a day is the sum of the costs of the
\* observations whose day of the month it is, added one by one in the order
\* in which they are passed, each addition rounded to a binary64 number; when
\* no day has more than two observations, or the costs of every such day are
\* whole numbers, none negative, with a sum below 2^53, merging observations
\* of one date beforehand changes nothing and every permutation of the
\* observations yields the same rows.
C8_SumsInOrderOfObservations ==
    pc = "built" =>
        /\ \A d \in 1..Len(perDay) :
              perDay[d].cost = SumOfDay(daily, Len(daily), d)
        /\ (\A d \in 1..Len(perDay) : OrderFree(daily, d)) =>
              /\ \A f \in Perms(Len(daily)) :
                    buildPerDayRows_(Permute(daily, f), monthlyBudget, mCtx)
                        = perDay
              /\ \A i, j \in 1..Len(daily) :
                    (i < j /\ daily[i].date = daily[j].date) =>
                        buildPerDayRows_(Merge(daily, i, j), monthlyBudget, mCtx)
                            = perDay

\* rows were built from two observations of the same day of the current
\* month with different costs
C8_Witness ==
    /\ pc = "built"
    /\ Len(daily) = 2
    /\ daily[1].date = daily[2].date
    /\ daily[1].date.cur
    /\ daily[1].cost # daily[2].cost
    /\ perDay[getDate(daily[1].date)].cost = Add(daily[1].cost, daily[2].cost)

\* C9: an observation whose date is not one of the days 1..daysInMonth of
\* the current month adds nothing to any row: the cost of day d is the sum of
\* the costs of the observations dated on day d of the current month.
C9_OtherDatesIgnored ==
    AfterBuild =>
        \A d \in 1..Len(perDay) :
            perDay[d].cost = SumOnDay(daily, Len(daily), d)

\* C10: with monthlyBudget = 0 every ratio is 0: targetDaily and
\* runningPacePct of every row, pctBudgetSpent and paceDeltaPct.
C10_ZeroBudgetRatiosAreZero ==
    monthlyBudget = Zero =>
        /\ AfterBuild =>
              \A d \in 1..Len(perDay) :
                  /\ perDay[d].targetDaily = Zero
                  /\ perDay[d].runningPacePct = Zero
        /\ pc \in {"sheet", "done"} => kpis.pctBudgetSpent = Zero
        /\ pc = "done" =>
              /\ overviewRow.pctBudgetSpent = Zero
              /\ overviewRow.paceDeltaPct = Zero

\* the overview row was pushed for a zero budget with spend recorded
C10_Witness ==
    /\ pc = "done"
    /\ monthlyBudget = Zero
    /\ Gt(spendMtd, Zero)
    /\ perDay[1].cost # Zero

\* C11: for every reference date monthMeta_ returns daysInMonth equal to the
\* number of days the Gregorian calendar gives the reference month (28, 29,
\* 30 or 31) and daysElapsed equal to the day of the month, so that
\* 1 <= daysElapsed <= daysInMonth.
C11_MonthMetaIsCalendarMonth ==
    pc = "month" =>
        /\ mCtx.daysInMonth = CalendarDays(today.y, today.m)
        /\ mCtx.daysInMonth \in 28..31
        /\ 1 <= mCtx.daysElapsed
        /\ mCtx.daysElapsed <= mCtx.daysInMonth
        /\ mCtx.daysElapsed = today.d

\* monthMeta_ has run on the last day of a February with 29 days
C11_Witness ==
    /\ pc = "month"
    /\ today.m = 2
    /\ today.d = 29
    /\ mCtx.daysInMonth = 29
    /\ mCtx.daysElapsed = 29

\* C12: every entry readConfig_ returns, in cfg.rows and in cfg.index, has
\* monthlyBudget > 0 and comes from a row of its account whose Include cell
\* is not FALSE, so that no account without a positive budget or with Include
\* FALSE reaches the pacing computation.
C12_OnlyBudgetedIncludedAccounts ==
    pc = "cfg" =>
        /\ \A k \in 1..Len(cfgRows) :
              /\ Gt(cfgRows[k].monthlyBudget, Zero)
              /\ \E i \in 1..Len(config) :
                    /\ rowAcctId(config[i]) = cfgRows[k].accountId
                    /\ includeOf(config[i][4])
              /\ cfgRows[k].accountId \in DOMAIN cfgIndex
        /\ \A a \in DOMAIN cfgIndex : Gt(cfgIndex[a].monthlyBudget, Zero)

\* the rows of the sheet that carry account id a
RowsOf(a) == {i \in 1..Len(config) : rowAcctId(config[i]) = a}
\* those of them the filter of line 418 lets through
KeptRowsOf(a) ==
    {i \in RowsOf(a) : passesFilter(includeOf(config[i][4]), rowBudget(config[i]))}
FirstOf(S) == CHOOSE i \in S : \A j \in S : i <= j
SheetIds == {rowAcctId(config[i]) : i \in {j \in 1..Len(config) : rowHasId(config[j])}}

\* C14 as stated: of the rows that carry one account id readConfig_ uses the
\* first and no other; when the first is excluded (budget <= 0 or Include
\* FALSE) the account has no entry.
C14_FirstRowOfAnIdDecides ==
    pc = "cfg" =>
        \A a \in SheetIds :
            LET f == FirstOf(RowsOf(a))
            IN IF ~includeOf(config[f][4]) \/ Le(rowBudget(config[f]), Zero)
               THEN a \notin DOMAIN cfgIndex
               ELSE /\ a \in DOMAIN cfgIndex
                    /\ cfgIndex[a].monthlyBudget = rowBudget(config[f])

\* C14, amended: of the rows that carry one account id readConfig_ uses the
\* first that passes its filter (Include not FALSE, budget not <= 0) and no
\* other; a row the filter excludes does not stand in the way of a later row
\* of the same id, and an id none of whose rows passes has no entry.
C14_FirstKeptRowOfAnIdDecides ==
    pc = "cfg" =>
        /\ \A a \in SheetIds :
              IF KeptRowsOf(a) = {}
              THEN a \notin DOMAIN cfgIndex
              ELSE /\ a \in DOMAIN cfgIndex
                   /\ cfgIndex[a].monthlyBudget
                         = rowBudget(config[FirstOf(KeptRowsOf(a))])
                   /\ Cardinality({k \in 1..Len(cfgRows) :
                                      cfgRows[k].accountId = a}) = 1
        /\ DOMAIN cfgIndex \subseteq SheetIds
        /\ \A k \in 1..Len(cfgRows) :
              cfgIndex[cfgRows[k].accountId] = cfgRows[k]

\* the sheet holds two rows of one account whose id cells differ, the first
\* excluded, the second with a budget, and readConfig_ has used the second
C14_Witness ==
    /\ pc = "cfg"
    /\ Len(config) = 2
    /\ config[1][1] # config[2][1]
    /\ rowAcctId(config[1]) = rowAcctId(config[2])
    /\ ~includeOf(config[1][4])
    /\ Len(cfgRows) = 1
    /\ cfgRows[1].monthlyBudget = rowBudget(config[2])
    /\ cfgRows[1].monthlyBudget = R(MaxBudget)

\* C13: the overview row of a processed account holds
\* targetSpendToDate = monthlyBudget x daysElapsed / daysInMonth,
\* paceVsTarget = spendMtd - targetSpendToDate,
\* availableRemaining = max(monthlyBudget - spendMtd, 0) and
\* paceDeltaPct = spendMtd / targetSpendToDate - 1, or 0 when the target is 0;
\* with 100 spent on each of the first 10 days of a 30-day month and a budget
\* of 3000 the row holds target 1000, pace 0, "On Target", projection 3000 and
\* recommendation 100, and the weighted average is 100.
C13_OverviewRowValues ==
    pc = "done" =>
        LET b == monthlyBudget
            sp == spendMtd
            t == Mul(b, Div(R(mCtx.daysElapsed), R(mCtx.daysInMonth)))
        IN /\ overviewRow.targetToDate = t
           /\ overviewRow.paceVsTarget = Sub(sp, t)
           /\ overviewRow.availRem
                 = (IF Lt(sp, b) THEN Sub(b, sp) ELSE Zero)
           /\ overviewRow.paceDeltaPct
                 = (IF IsZero(t) THEN Zero ELSE Sub(Div(sp, t), R(1)))
           /\ overviewRow.trendText = trendLabel_(overviewRow.paceDeltaPct)
           /\ report = SteadyReport =>
                 /\ overviewRow.targetToDate = R(1000)
                 /\ overviewRow.paceVsTarget = Zero
                 /\ overviewRow.paceDeltaPct = Zero
                 /\ overviewRow.trendText = "On Target"
                 /\ wmaDaily = R(100)
                 /\ overviewRow.projectedEom = R(3000)
                 /\ overviewRow.recDaily = R(100)

\* the row of the steady scenario has been pushed
C13_Witness ==
    /\ pc = "done"
    /\ report = SteadyReport
    /\ mCtx = [daysInMonth |-> 30, daysElapsed |-> 10]
    /\ overviewRow.budgetCap = R(3000)
    /\ overviewRow.targetToDate = R(1000)
    /\ overviewRow.trendText = "On Target"

\* C15: when daysElapsed < daysInMonth the cumForecastWma of the last DayRow
\* equals the projectedEomSpend of the account,
\* spendMtd + wmaDaily x remainingDays; and when spendMtd is at least the
\* cumSpend of day daysElapsed and no cost is negative, cumForecastWma never
\* decreases from one day of the month to the next.
C15_ForecastMeetsProjection ==
    AfterForecast =>
        /\ mCtx.daysElapsed < mCtx.daysInMonth =>
              /\ perDay[Len(perDay)].cumForecastWma
                    = Add(spendMtd,
                          Mul(wmaDaily, R(mCtx.daysInMonth - mCtx.daysElapsed)))
              /\ pc \in {"sheet", "done"} =>
                    perDay[Len(perDay)].cumForecastWma = kpis.projectedEom
              /\ pc = "done" =>
                    perDay[Len(perDay)].cumForecastWma = overviewRow.projectedEom
        /\ (/\ Le(perDay[mCtx.daysElapsed].cumSpend, spendMtd)
            /\ \A d \in 1..Len(perDay) : Le(Zero, perDay[d].cost))
              => \A d \in 1..(Len(perDay) - 1) :
                    Le(perDay[d].cumForecastWma, perDay[d + 1].cumForecastWma)

\* the overview row has been pushed for a month with days to come, a
\* spendMtd above the summed daily costs and a positive daily average
C15_Witness ==
    /\ pc = "done"
    /\ mCtx.daysElapsed + 1 < mCtx.daysInMonth
    /\ Lt(perDay[mCtx.daysElapsed].cumSpend, spendMtd)
    /\ Gt(wmaDaily, Zero)
    /\ overviewRow.projectedEom = perDay[Len(perDay)].cumForecastWma
    /\ Lt(perDay[mCtx.daysElapsed].cumForecastWma,
          perDay[Len(perDay)].cumForecastWma)

\* the rows of the sheet that the seeding of the run in progress appended
AppendedRows == (Len(config) - seed.added + 1)..Len(config)

\* the seeding of a run appends rows only for accounts of the MCC whose id is
\* in no row the sheet already has, each with a blank budget and Include TRUE,
\* leaves the id, budget and Include cells of the rows it found unchanged, and
\* appends nothing when it follows a run with the same account list
SeedingAppendsMissingOnly ==
    LET k == Len(config)
    IN /\ Len(config') = k + seed'.added
       /\ \A i \in 1..k :
             /\ config'[i][1] = config[i][1]
             /\ config'[i][3] = config[i][3]
             /\ config'[i][4] = config[i][4]
       /\ \A i \in (k + 1)..Len(config') :
             /\ config'[i][3] = Blank
             /\ config'[i][4] = Bool(TRUE)
             /\ \E n \in mcc :
                   rowAcctId(config'[i]) = RemoveDashes(CustomerId(n))
             /\ \A j \in 1..k :
                   rowAcctId(config[j]) # rowAcctId(config'[i])
       /\ \A n \in mcc :
             \E i \in 1..Len(config') :
                 rowAcctId(config'[i]) = RemoveDashes(CustomerId(n))
       /\ pc \in {"ran", "edited"} => seed'.added = 0

\* a step that seeds the sheet, and a step that reads it and ends the run
SeedStep == pc \notin InRun /\ pc' \in InRun
ProcessStep == pc \in InRun /\ pc' \notin InRun

\* C16 as stated: over any sequence of runs and user edits, no id is ever
\* appended twice, the seeding of a run appends rows only for accounts whose id
\* is in no row of the sheet and changes no budget or Include cell, a run that
\* follows a run with the same account list appends nothing, and a run never
\* processes an account whose row it has appended itself.
C16_SeedingIsIdempotent ==
    /\ [](\A i, j \in 1..Len(appendLog) :
              i # j => appendLog[i] # appendLog[j])
    /\ [][SeedStep => SeedingAppendsMissingOnly]_vars
    /\ [][ProcessStep =>
            (\A i \in AppendedRows :
                 rowAcctId(config[i]) \notin processedIds')]_vars

\* C16, amended: over any sequence of runs and user edits, no id is ever
\* appended twice, the seeding of a run appends rows only for accounts whose id
\* is in no row of the sheet and changes no budget or Include cell, and a run
\* that follows a run with the same account list appends nothing; a run
\* processes an account only if a row of it has a budget when line 108 reads
\* the sheet, so it processes an account whose row it has appended itself
\* only if the budget of that row was filled in between the seeding and the
\* reading of the same run.
C16_AppendedIsProcessedOnceBudgeted ==
    /\ [](\A i, j \in 1..Len(appendLog) :
              i # j => appendLog[i] # appendLog[j])
    /\ [][SeedStep => SeedingAppendsMissingOnly]_vars
    /\ [][ProcessStep =>
            /\ \A a \in processedIds' :
                  \E i \in 1..Len(config) :
                      /\ rowAcctId(config[i]) = a
                      /\ config[i][3] # Blank
            /\ \A i \in AppendedRows :
                  rowAcctId(config[i]) \in processedIds'
                      => config[i][3] # Blank]_vars

\* a run has appended the row of an account and, the budget of that row
\* having been filled in before line 108 read the sheet, has processed the
\* account
C16_Witness ==
    /\ pc = "ran"
    /\ seed.added > 0
    /\ \E i \in AppendedRows :
          /\ config[i][3] # Blank
          /\ rowAcctId(config[i]) \in processedIds

====
